---------------------------- MODULE Spec2Model ----------------------------
(***************************************************************************)
(* A model of pydecode: the traceback sanitizer, the five field            *)
(* extractors, the classifier, the explanation lookup, decode_traceback    *)
(* and safe_run (src/pydecode/utils.py, src/pydecode/core.py).             *)
(*                                                                         *)
(* Python values are tagged records:                                       *)
(*   None          [t |-> "None"]                                          *)
(*   a str         [t |-> "str",  v |-> <<c1, ..., cn>>]  one character    *)
(*                 per element, so that the regular expressions and the    *)
(*                 split/strip calls are computed character by character   *)
(*   an int        [t |-> "int",  v |-> n]                                 *)
(*   a raised      [t |-> "raise", v |-> "IndexError"]  the call did not   *)
(*   exception     return: it raised the named exception to its caller     *)
(*   a label       [t |-> "lit",  v |-> "..."]  a str whose characters no  *)
(*                 code looks at (a category, an explanation), kept whole  *)
(* The escape character \x1B is written "ESC".  Chars gives the characters *)
(* of the names and literals of the source.                                *)
(***************************************************************************)
EXTENDS Integers, Sequences, FiniteSets, TLC

VARIABLES
    text,          \* the argument handed to the operation (a Python value)
    branding_arg,  \* the add_branding argument the operation was called with
    op,            \* the operation that was called, "none" before the call
    out,           \* what the call returned, or the exception it raised
    code,          \* safe_run: the code argument of each call
    globals_dict,  \* safe_run: the namespace each call executes in
    pc,            \* safe_run: where each call stands
    ip,            \* safe_run: the line of the code exec is about to run
    fault,         \* safe_run: the exception in flight in each call, or None
    ret,           \* safe_run: what each call returned or raised, None before
    capture,       \* safe_run: the contents of each call's stdout_capture
    old_targets,   \* redirect_stdout: the stream each call saved on entry
    sys_stdout,    \* sys.stdout, the stream of the whole process
    console,       \* what was written to the stream installed at the start
    namespace,     \* the binding of the name result in each namespace
    printed,       \* history: what the code of each call has printed
    args,          \* the command line: what argparse made of argv
    path,          \* the command line: what is at the path given
    cli_pc,        \* the command line: where main stands
    exit_code,     \* the command line: what main returned or raised
    mapping_tags,  \* the contents of the tags list of each record of the table
    held           \* the results callers hold, each with the list its tags is

textVars == <<text, op, out>>
runVars == <<code, globals_dict, pc, ip, fault, ret, capture, old_targets, sys_stdout, console, namespace, printed>>
cliVars == <<args, path, cli_pc, exit_code>>
tableVars == <<mapping_tags, held>>
vars == <<text, branding_arg, op, out, code, globals_dict, pc, ip, fault, ret, capture, old_targets, sys_stdout, console, namespace, printed, args, path, cli_pc, exit_code, mapping_tags, held>>

---------------------------------------------------------------------------
(* Python values *)

None == [t |-> "None"]
PyStr(s) == [t |-> "str", v |-> s]
PyInt(n) == [t |-> "int", v |-> n]
Raised(e) == [t |-> "raise", v |-> e]

IsStr(x) == x.t = "str"
IsNone(x) == x.t = "None"
IsRaised(x) == x.t = "raise"

\* bool(x): None, "", 0 and False are false, every other value here is true
Truthy(x) ==
    CASE x.t = "None" -> FALSE
      [] x.t = "str" -> x.v # <<>>
      [] x.t = "int" -> x.v # 0
      [] x.t = "bool" -> x.v
      [] OTHER -> TRUE

Lit(s) == [t |-> "lit", v |-> s]
PyBool(b) == [t |-> "bool", v |-> b]
PyList(l) == [t |-> "list", v |-> l]
PyDict(d) == [t |-> "dict", v |-> d]

\* The characters of the names and literals of the source
Chars ==
    ("SyntaxError" :>
        <<"S", "y", "n", "t", "a", "x", "E", "r", "r", "o", "r">>) @@
    ("IndentationError" :>
        <<"I", "n", "d", "e", "n", "t", "a", "t", "i", "o", "n", "E", "r",
          "r", "o", "r">>) @@
    ("TabError" :>
        <<"T", "a", "b", "E", "r", "r", "o", "r">>) @@
    ("NameError" :>
        <<"N", "a", "m", "e", "E", "r", "r", "o", "r">>) @@
    ("UnboundLocalError" :>
        <<"U", "n", "b", "o", "u", "n", "d", "L", "o", "c", "a", "l", "E",
          "r", "r", "o", "r">>) @@
    ("TypeError" :>
        <<"T", "y", "p", "e", "E", "r", "r", "o", "r">>) @@
    ("ValueError" :>
        <<"V", "a", "l", "u", "e", "E", "r", "r", "o", "r">>) @@
    ("UnicodeError" :>
        <<"U", "n", "i", "c", "o", "d", "e", "E", "r", "r", "o", "r">>) @@
    ("UnicodeDecodeError" :>
        <<"U", "n", "i", "c", "o", "d", "e", "D", "e", "c", "o", "d", "e",
          "E", "r", "r", "o", "r">>) @@
    ("UnicodeEncodeError" :>
        <<"U", "n", "i", "c", "o", "d", "e", "E", "n", "c", "o", "d", "e",
          "E", "r", "r", "o", "r">>) @@
    ("UnicodeTranslateError" :>
        <<"U", "n", "i", "c", "o", "d", "e", "T", "r", "a", "n", "s", "l",
          "a", "t", "e", "E", "r", "r", "o", "r">>) @@
    ("ImportError" :>
        <<"I", "m", "p", "o", "r", "t", "E", "r", "r", "o", "r">>) @@
    ("ModuleNotFoundError" :>
        <<"M", "o", "d", "u", "l", "e", "N", "o", "t", "F", "o", "u", "n",
          "d", "E", "r", "r", "o", "r">>) @@
    ("FileNotFoundError" :>
        <<"F", "i", "l", "e", "N", "o", "t", "F", "o", "u", "n", "d", "E",
          "r", "r", "o", "r">>) @@
    ("FileExistsError" :>
        <<"F", "i", "l", "e", "E", "x", "i", "s", "t", "s", "E", "r", "r",
          "o", "r">>) @@
    ("PermissionError" :>
        <<"P", "e", "r", "m", "i", "s", "s", "i", "o", "n", "E", "r", "r",
          "o", "r">>) @@
    ("IsADirectoryError" :>
        <<"I", "s", "A", "D", "i", "r", "e", "c", "t", "o", "r", "y", "E",
          "r", "r", "o", "r">>) @@
    ("NotADirectoryError" :>
        <<"N", "o", "t", "A", "D", "i", "r", "e", "c", "t", "o", "r", "y",
          "E", "r", "r", "o", "r">>) @@
    ("OSError" :>
        <<"O", "S", "E", "r", "r", "o", "r">>) @@
    ("IOError" :>
        <<"I", "O", "E", "r", "r", "o", "r">>) @@
    ("ZeroDivisionError" :>
        <<"Z", "e", "r", "o", "D", "i", "v", "i", "s", "i", "o", "n", "E",
          "r", "r", "o", "r">>) @@
    ("OverflowError" :>
        <<"O", "v", "e", "r", "f", "l", "o", "w", "E", "r", "r", "o", "r">>) @@
    ("FloatingPointError" :>
        <<"F", "l", "o", "a", "t", "i", "n", "g", "P", "o", "i", "n", "t",
          "E", "r", "r", "o", "r">>) @@
    ("IndexError" :>
        <<"I", "n", "d", "e", "x", "E", "r", "r", "o", "r">>) @@
    ("KeyError" :>
        <<"K", "e", "y", "E", "r", "r", "o", "r">>) @@
    ("LookupError" :>
        <<"L", "o", "o", "k", "u", "p", "E", "r", "r", "o", "r">>) @@
    ("AttributeError" :>
        <<"A", "t", "t", "r", "i", "b", "u", "t", "e", "E", "r", "r", "o",
          "r">>) @@
    ("RuntimeError" :>
        <<"R", "u", "n", "t", "i", "m", "e", "E", "r", "r", "o", "r">>) @@
    ("RecursionError" :>
        <<"R", "e", "c", "u", "r", "s", "i", "o", "n", "E", "r", "r", "o",
          "r">>) @@
    ("NotImplementedError" :>
        <<"N", "o", "t", "I", "m", "p", "l", "e", "m", "e", "n", "t", "e",
          "d", "E", "r", "r", "o", "r">>) @@
    ("SystemError" :>
        <<"S", "y", "s", "t", "e", "m", "E", "r", "r", "o", "r">>) @@
    ("MemoryError" :>
        <<"M", "e", "m", "o", "r", "y", "E", "r", "r", "o", "r">>) @@
    ("SystemExit" :>
        <<"S", "y", "s", "t", "e", "m", "E", "x", "i", "t">>) @@
    ("KeyboardInterrupt" :>
        <<"K", "e", "y", "b", "o", "a", "r", "d", "I", "n", "t", "e", "r",
          "r", "u", "p", "t">>) @@
    ("GeneratorExit" :>
        <<"G", "e", "n", "e", "r", "a", "t", "o", "r", "E", "x", "i", "t">>) @@
    ("AssertionError" :>
        <<"A", "s", "s", "e", "r", "t", "i", "o", "n", "E", "r", "r", "o",
          "r">>) @@
    ("StopIteration" :>
        <<"S", "t", "o", "p", "I", "t", "e", "r", "a", "t", "i", "o", "n">>) @@
    ("StopAsyncIteration" :>
        <<"S", "t", "o", "p", "A", "s", "y", "n", "c", "I", "t", "e", "r",
          "a", "t", "i", "o", "n">>) @@
    ("UnknownError" :>
        <<"U", "n", "k", "n", "o", "w", "n", "E", "r", "r", "o", "r">>) @@
    ("InvalidInput" :>
        <<"I", "n", "v", "a", "l", "i", "d", "I", "n", "p", "u", "t">>) @@
    ("__unknown__" :>
        <<"_", "_", "u", "n", "k", "n", "o", "w", "n", "_", "_">>) @@
    ("NonExistentError" :>
        <<"N", "o", "n", "E", "x", "i", "s", "t", "e", "n", "t", "E", "r",
          "r", "o", "r">>) @@
    ("TotallyMadeUpError" :>
        <<"T", "o", "t", "a", "l", "l", "y", "M", "a", "d", "e", "U", "p",
          "E", "r", "r", "o", "r">>) @@
    ("valueerror" :>
        <<"v", "a", "l", "u", "e", "e", "r", "r", "o", "r">>) @@
    ("VALUEERROR" :>
        <<"V", "A", "L", "U", "E", "E", "R", "R", "O", "R">>) @@
    ("Keyerror" :>
        <<"K", "e", "y", "e", "r", "r", "o", "r">>) @@
    ("Foo" :>
        <<"F", "o", "o">>) @@
    ("foo" :>
        <<"f", "o", "o">>) @@
    ("MyException" :>
        <<"M", "y", "E", "x", "c", "e", "p", "t", "i", "o", "n">>) @@
    ("UserWarning" :>
        <<"U", "s", "e", "r", "W", "a", "r", "n", "i", "n", "g">>) @@
    ("Error" :>
        <<"E", "r", "r", "o", "r">>) @@
    ("No message provided" :>
        <<"N", "o", " ", "m", "e", "s", "s", "a", "g", "e", " ", "p", "r",
          "o", "v", "i", "d", "e", "d">>) @@
    ("No traceback provided" :>
        <<"N", "o", " ", "t", "r", "a", "c", "e", "b", "a", "c", "k", " ",
          "p", "r", "o", "v", "i", "d", "e", "d">>) @@
    ("..." :>
        <<".", ".", ".">>) @@
    ("<module>" :>
        <<"<", "m", "o", "d", "u", "l", "e", ">">>) @@
    ("<lambda>" :>
        <<"<", "l", "a", "m", "b", "d", "a", ">">>) @@
    ("<listcomp>" :>
        <<"<", "l", "i", "s", "t", "c", "o", "m", "p", ">">>) @@
    ("<dictcomp>" :>
        <<"<", "d", "i", "c", "t", "c", "o", "m", "p", ">">>) @@
    ("<setcomp>" :>
        <<"<", "s", "e", "t", "c", "o", "m", "p", ">">>) @@
    ("main script" :>
        <<"m", "a", "i", "n", " ", "s", "c", "r", "i", "p", "t">>)

\* s == n, for a str s and a name n of the source
NameIs(s, n) == s = Chars[n]

\* s in names, for a str s and a set of names of the source
IsOneOf(s, names) == \E n \in names : NameIs(s, n)

---------------------------------------------------------------------------
(* Character classes of the re module and of str.strip / str.isupper *)

Upper == {"A", "B", "C", "D", "E", "F", "G", "H", "I", "J", "K", "L", "M",
          "N", "O", "P", "Q", "R", "S", "T", "U", "V", "W", "X", "Y", "Z"}
Lower == {"a", "b", "c", "d", "e", "f", "g", "h", "i", "j", "k", "l", "m",
          "n", "o", "p", "q", "r", "s", "t", "u", "v", "w", "x", "y", "z"}
Digits == {"0", "1", "2", "3", "4", "5", "6", "7", "8", "9"}

\* \s and the characters str.strip() removes
IsSpace(c) == c \in {" ", "\t", "\n", "\r", "\f"}
\* \w
IsWord(c) == c \in Upper \cup Lower \cup Digits \cup {"_"}
\* \d
IsDigit(c) == c \in Digits
\* [a-zA-Z_] and [a-zA-Z0-9_]
IsIdentStart(c) == c \in Upper \cup Lower \cup {"_"}
IsIdentChar(c) == c \in Upper \cup Lower \cup Digits \cup {"_"}
\* ["\'] : the double quote is written "\"" and the single quote "'"
IsQuote(c) == c \in {"\"", "'"}
\* [@-Z\\-_] : 0x40-0x5A and 0x5C-0x5F
IsFe(c) == c \in Upper \cup {"@", "\\", "]", "^", "_"}
\* [0-?] : 0x30-0x3F
IsCsiParam(c) == c \in Digits \cup {":", ";", "<", "=", ">", "?"}
\* [ -/] : 0x20-0x2F
IsCsiInter(c) ==
    c \in {" ", "!", "\"", "#", "$", "%", "&", "'", "(", ")", "*", "+", ",",
           "-", ".", "/"}
\* [@-~] : 0x40-0x7E (the grave accent, 0x60, is in the class too)
IsCsiFinal(c) ==
    c \in Upper \cup Lower \cup {"@", "[", "\\", "]", "^", "_", "{", "|", "}", "~"}

---------------------------------------------------------------------------
(* str methods *)

RECURSIVE LStrip(_)
LStrip(s) == IF s # <<>> /\ IsSpace(Head(s)) THEN LStrip(Tail(s)) ELSE s

RECURSIVE RStrip(_)
RStrip(s) ==
    IF s # <<>> /\ IsSpace(s[Len(s)]) THEN RStrip(SubSeq(s, 1, Len(s) - 1)) ELSE s

\* s.strip()
Strip(s) == RStrip(LStrip(s))

\* s.find(c) for one character, 1-based; 0 when c is not in s
Find(s, c) ==
    IF \E j \in 1..Len(s) : s[j] = c
    THEN CHOOSE j \in 1..Len(s) : s[j] = c /\ \A k \in 1..(j - 1) : s[k] # c
    ELSE 0

\* sub in s at position i
StartsAt(s, sub, i) ==
    /\ i >= 1
    /\ i + Len(sub) - 1 <= Len(s)
    /\ SubSeq(s, i, i + Len(sub) - 1) = sub

\* sub in s
Contains(s, sub) == \E i \in 1..(Len(s) + 1) : StartsAt(s, sub, i)

\* s.split(sep) for a one-character separator: empty pieces are kept
RECURSIVE Split(_, _)
Split(s, sep) ==
    LET i == Find(s, sep)
    IN  IF i = 0 THEN <<s>>
        ELSE <<SubSeq(s, 1, i - 1)>> \o Split(SubSeq(s, i + 1, Len(s)), sep)

\* s.split(sep, 1): at most one split, at the first separator
SplitOnce(s, sep) ==
    LET i == Find(s, sep)
    IN  IF i = 0 THEN <<s>>
        ELSE <<SubSeq(s, 1, i - 1), SubSeq(s, i + 1, Len(s))>>

\* the end (exclusive) of the longest run of characters from i on for which
\* the class holds; classes are given by name
InClass(cls, c) ==
    CASE cls = "space" -> IsSpace(c)
      [] cls = "nonspace" -> ~IsSpace(c)
      [] cls = "word" -> IsWord(c)
      [] cls = "digit" -> IsDigit(c)
      [] cls = "ident" -> IsIdentChar(c)
      [] cls = "nonquote" -> ~IsQuote(c)
      [] cls = "csiparam" -> IsCsiParam(c)
      [] cls = "csiinter" -> IsCsiInter(c)
      [] cls = "newline" -> c = "\n"
      [] OTHER -> FALSE

Span(s, i, cls) ==
    IF \E j \in i..Len(s) : ~InClass(cls, s[j])
    THEN CHOOSE j \in i..Len(s) :
             ~InClass(cls, s[j]) /\ \A k \in i..(j - 1) : InClass(cls, s[k])
    ELSE IF i > Len(s) THEN i ELSE Len(s) + 1

\* s.split(): the maximal runs of non-whitespace, none of them empty
RECURSIVE SplitWs(_)
SplitWs(s) ==
    LET t == LStrip(s)
        e == Span(t, 1, "nonspace")
    IN  IF t = <<>> THEN <<>>
        ELSE <<SubSeq(t, 1, e - 1)>> \o SplitWs(SubSeq(t, e, Len(t)))

\* int(digits)
DigitValue(c) ==
    CASE c = "0" -> 0 [] c = "1" -> 1 [] c = "2" -> 2 [] c = "3" -> 3
      [] c = "4" -> 4 [] c = "5" -> 5 [] c = "6" -> 6 [] c = "7" -> 7
      [] c = "8" -> 8 [] c = "9" -> 9

RECURSIVE ToInt(_)
ToInt(ds) ==
    IF ds = <<>> THEN 0
    ELSE 10 * ToInt(SubSeq(ds, 1, Len(ds) - 1)) + DigitValue(ds[Len(ds)])

---------------------------------------------------------------------------
(* extract_error_type, extract_error_message *)

\* [line.strip() for line in text.strip().split('\n') if line.strip()]
RECURSIVE StripNonBlank(_)
StripNonBlank(ls) ==
    IF ls = <<>> THEN <<>>
    ELSE IF Strip(Head(ls)) # <<>>
         THEN <<Strip(Head(ls))>> \o StripNonBlank(Tail(ls))
         ELSE StripNonBlank(Tail(ls))

NonBlankLines(s) == StripNonBlank(Split(Strip(s), "\n"))

\* \w+(?:\.\w+)* matches the whole of g: non-empty runs of \w joined by
\* single dots
RECURSIVE IsDotted(_)
IsDotted(g) ==
    LET e == Span(g, 1, "word")
    IN  /\ e > 1
        /\ \/ e = Len(g) + 1
           \/ /\ g[e] = "."
              /\ IsDotted(SubSeq(g, e + 1, Len(g)))

SuffixError == <<"E", "r", "r", "o", "r">>
SuffixException == <<"E", "x", "c", "e", "p", "t", "i", "o", "n">>
SuffixWarning == <<"W", "a", "r", "n", "i", "n", "g">>

\* ^(\w+(?:\.\w+)*SUFFIX):  The group cannot hold a ':', so it is the text
\* before the first ':'.  The literal suffix closes the last \w+ run, which
\* must keep at least one character of its own before it.
DottedSuffixGroup(line, suffix) ==
    LET c == Find(line, ":")
        g == SubSeq(line, 1, c - 1)
        n == Len(g) - Len(suffix)
    IN  IF /\ c > 1
           /\ n >= 1
           /\ SubSeq(g, n + 1, Len(g)) = suffix
           /\ IsDotted(SubSeq(g, 1, n))
        THEN g ELSE <<>>

SpecialNames ==
    {"KeyboardInterrupt", "SystemExit", "GeneratorExit", "StopIteration",
     "StopAsyncIteration"}

\* ^(KeyboardInterrupt|SystemExit|GeneratorExit|StopIteration|StopAsyncIteration):
SpecialGroup(line) ==
    LET c == Find(line, ":")
        g == SubSeq(line, 1, c - 1)
    IN  IF c > 1 /\ IsOneOf(g, SpecialNames) THEN g ELSE <<>>

\* ^([A-Z]\w+):
CapitalizedGroup(line) ==
    LET c == Find(line, ":")
        g == SubSeq(line, 1, c - 1)
    IN  IF /\ c > 2
           /\ g[1] \in Upper
           /\ Span(g, 2, "word") = Len(g) + 1
        THEN g ELSE <<>>

NumPatterns == 5

\* re.search(patterns[k], last_line): the group, <<>> when there is no match
PatternGroup(k, line) ==
    CASE k = 1 -> DottedSuffixGroup(line, SuffixError)
      [] k = 2 -> DottedSuffixGroup(line, SuffixException)
      [] k = 3 -> DottedSuffixGroup(line, SuffixWarning)
      [] k = 4 -> SpecialGroup(line)
      [] k = 5 -> CapitalizedGroup(line)

\* for pattern in patterns: the group of the first pattern that matches
RECURSIVE TryPatterns(_, _)
TryPatterns(k, line) ==
    IF k > NumPatterns THEN <<>>
    ELSE IF PatternGroup(k, line) # <<>> THEN PatternGroup(k, line)
         ELSE TryPatterns(k + 1, line)

\* last_line.split(':')[0].split()[0] if ':' in last_line or ' ' in last_line
\* else last_line.  Indexing the empty list raises IndexError.
FirstWord(last_line) ==
    IF Find(last_line, ":") # 0 \/ Find(last_line, " ") # 0
    THEN LET words == SplitWs(Split(last_line, ":")[1])
         IN  IF words = <<>> THEN Raised("IndexError") ELSE PyStr(words[1])
    ELSE PyStr(last_line)

extract_error_type(traceback_text) ==
    IF ~Truthy(traceback_text) \/ ~IsStr(traceback_text) THEN None
    ELSE LET lines == NonBlankLines(traceback_text.v)
         IN  IF lines = <<>> THEN None
             ELSE LET last_line == lines[Len(lines)]
                      group == TryPatterns(1, last_line)
                      first_word == FirstWord(last_line)
                  IN  IF group # <<>> THEN PyStr(group)
                      ELSE IF IsRaised(first_word) THEN first_word
                      ELSE IF first_word.v # <<>> /\ first_word.v[1] \in Upper
                           THEN first_word
                           ELSE None

\* s.rsplit(sep, 1): at most one split, at the last separator
RSplitOnce(s, sep) ==
    IF \E j \in 1..Len(s) : s[j] = sep
    THEN LET i == CHOOSE j \in 1..Len(s) :
                      s[j] = sep /\ \A k \in (j + 1)..Len(s) : s[k] # sep
         IN  <<SubSeq(s, 1, i - 1), SubSeq(s, i + 1, Len(s))>>
    ELSE <<s>>

\* extract_error_message with last_line.rsplit(':', 1) for split(':', 1)
extract_error_message_rsplit(traceback_text) ==
    IF ~Truthy(traceback_text) \/ ~IsStr(traceback_text) THEN None
    ELSE LET lines == NonBlankLines(traceback_text.v)
         IN  IF lines = <<>> THEN None
             ELSE LET last_line == lines[Len(lines)]
                      parts == RSplitOnce(last_line, ":")
                  IN  IF Find(last_line, ":") # 0 /\ Len(parts) = 2
                      THEN LET message == Strip(parts[2])
                           IN  IF message # <<>> THEN PyStr(message) ELSE None
                      ELSE None

extract_error_message(traceback_text) ==
    IF ~Truthy(traceback_text) \/ ~IsStr(traceback_text) THEN None
    ELSE LET lines == NonBlankLines(traceback_text.v)
         IN  IF lines = <<>> THEN None
             ELSE LET last_line == lines[Len(lines)]
                      parts == SplitOnce(last_line, ":")
                  IN  IF Find(last_line, ":") # 0 /\ Len(parts) = 2
                      THEN LET message == Strip(parts[2])
                           IN  IF message # <<>> THEN PyStr(message) ELSE None
                      ELSE None

---------------------------------------------------------------------------
(* extract_line_number, extract_file_name, extract_function_name *)

WordLine == <<"l", "i", "n", "e">>
WordFile == <<"F", "i", "l", "e">>
WordIn == <<"i", "n">>

\* line\s+(\d+) matched at position i: <<start of the digits, end of the
\* match (exclusive)>>, <<0, 0>> when there is no match at i.  \s+ and \d+
\* are greedy and their classes are disjoint, so nothing is given back.
LineMatchAt(s, i) ==
    LET a == i + Len(WordLine)
        b == Span(s, a, "space")
        e == Span(s, b, "digit")
    IN  IF StartsAt(s, WordLine, i) /\ b > a /\ e > b THEN <<b, e>> ELSE <<0, 0>>

\* re.findall(r'line\s+(\d+)', s): the groups of the non-overlapping
\* matches, found from left to right
RECURSIVE LineFindAll(_, _)
LineFindAll(s, i) ==
    IF \A j \in i..Len(s) : LineMatchAt(s, j)[2] = 0 THEN <<>>
    ELSE LET j == CHOOSE j \in i..Len(s) :
                      /\ LineMatchAt(s, j)[2] # 0
                      /\ \A k \in i..(j - 1) : LineMatchAt(s, k)[2] = 0
             m == LineMatchAt(s, j)
         IN  <<SubSeq(s, m[1], m[2] - 1)>> \o LineFindAll(s, m[2])

\* extract_line_number with int(matches[0]) for int(matches[-1])
extract_line_number_first(traceback_text) ==
    IF ~Truthy(traceback_text) \/ ~IsStr(traceback_text) THEN None
    ELSE LET matches == LineFindAll(traceback_text.v, 1)
         IN  IF matches # <<>> THEN PyInt(ToInt(matches[1])) ELSE None

extract_line_number(traceback_text) ==
    IF ~Truthy(traceback_text) \/ ~IsStr(traceback_text) THEN None
    ELSE LET matches == LineFindAll(traceback_text.v, 1)
         IN  IF matches # <<>> THEN PyInt(ToInt(matches[Len(matches)])) ELSE None

\* File\s+["\']([^"\']+)["\'] matched at position i: <<start of the group,
\* end of the match (exclusive)>>, <<0, 0>> when there is no match at i.
\* The opening and the closing quote are each any of the two quote
\* characters; the group runs to the next quote character of either kind.
FileMatchAt(s, i) ==
    LET a == i + Len(WordFile)
        b == Span(s, a, "space")
        e == Span(s, b + 1, "nonquote")
    IN  IF /\ StartsAt(s, WordFile, i)
           /\ b > a
           /\ b <= Len(s) /\ IsQuote(s[b])
           /\ e > b + 1
           /\ e <= Len(s) /\ IsQuote(s[e])
        THEN <<b + 1, e + 1>> ELSE <<0, 0>>

\* re.findall(pattern, s)
RECURSIVE FileFindAll(_, _)
FileFindAll(s, i) ==
    IF \A j \in i..Len(s) : FileMatchAt(s, j)[2] = 0 THEN <<>>
    ELSE LET j == CHOOSE j \in i..Len(s) :
                      /\ FileMatchAt(s, j)[2] # 0
                      /\ \A k \in i..(j - 1) : FileMatchAt(s, k)[2] = 0
             m == FileMatchAt(s, j)
         IN  <<SubSeq(s, m[1], m[2] - 2)>> \o FileFindAll(s, m[2])

extract_file_name(traceback_text) ==
    IF ~Truthy(traceback_text) \/ ~IsStr(traceback_text) THEN None
    ELSE LET matches == FileFindAll(traceback_text.v, 1)
         IN  IF matches # <<>> THEN PyStr(matches[Len(matches)]) ELSE None

\* in\s+([a-zA-Z_][a-zA-Z0-9_]*)\s*$ matched at position i: the group, <<>>
\* when there is no match at i
FuncMatchAt(s, i) ==
    LET a == i + Len(WordIn)
        b == Span(s, a, "space")
        e == Span(s, b, "ident")
    IN  IF /\ StartsAt(s, WordIn, i)
           /\ b > a
           /\ b <= Len(s) /\ IsIdentStart(s[b])
           /\ Span(s, e, "space") = Len(s) + 1
        THEN SubSeq(s, b, e - 1) ELSE <<>>

\* re.search(pattern, s): the group of the leftmost match
FuncSearch(s) ==
    IF \A j \in 1..Len(s) : FuncMatchAt(s, j) = <<>> THEN <<>>
    ELSE FuncMatchAt(s, CHOOSE j \in 1..Len(s) :
                            /\ FuncMatchAt(s, j) # <<>>
                            /\ \A k \in 1..(j - 1) : FuncMatchAt(s, k) = <<>>)

SkippedNames == {"<module>", "<lambda>", "<listcomp>", "<dictcomp>", "<setcomp>"}

\* for line in reversed(lines): lines[k], lines[k-1], ..., lines[1]
RECURSIVE FuncScan(_, _)
FuncScan(lines, k) ==
    IF k = 0 THEN None
    ELSE LET line == lines[k]
             func_name == FuncSearch(Strip(line))
         IN  IF Contains(line, WordFile) /\ Contains(line, WordIn) /\ func_name # <<>>
             THEN IF ~IsOneOf(func_name, SkippedNames) THEN PyStr(func_name)
                  ELSE IF NameIs(func_name, "<module>") THEN PyStr(Chars["main script"])
                  ELSE FuncScan(lines, k - 1)
             ELSE FuncScan(lines, k - 1)

extract_function_name(traceback_text) ==
    IF ~Truthy(traceback_text) \/ ~IsStr(traceback_text) THEN None
    ELSE LET lines == Split(traceback_text.v, "\n")
         IN  FuncScan(lines, Len(lines))

---------------------------------------------------------------------------
(* sanitize_traceback *)


\* \x1B(?:[@-Z\\-_]|\[[0-?]*[ -/]*[@-~]) matched at position i: the end of
\* the match (exclusive), 0 when there is no match at i.  The three classes
\* of the second alternative are disjoint, so the greedy runs give nothing
\* back.
AnsiMatchAt(s, i) ==
    IF ~(i + 1 <= Len(s) /\ s[i] = "ESC") THEN 0
    ELSE IF IsFe(s[i + 1]) THEN i + 2
    ELSE IF s[i + 1] = "["
         THEN LET e == Span(s, Span(s, i + 2, "csiparam"), "csiinter")
              IN  IF e <= Len(s) /\ IsCsiFinal(s[e]) THEN e + 1 ELSE 0
         ELSE 0

\* ansi_escape.sub('', s): every non-overlapping match, found from left to
\* right in s, is removed; the result is not scanned again
RECURSIVE AnsiSub(_, _)
AnsiSub(s, i) ==
    IF \A j \in i..Len(s) : AnsiMatchAt(s, j) = 0 THEN SubSeq(s, i, Len(s))
    ELSE LET j == CHOOSE j \in i..Len(s) :
                      /\ AnsiMatchAt(s, j) # 0
                      /\ \A k \in i..(j - 1) : AnsiMatchAt(s, k) = 0
         IN  SubSeq(s, i, j - 1) \o AnsiSub(s, AnsiMatchAt(s, j))

\* s.replace('\r\n', '\n')
CrLf == <<"\r", "\n">>

RECURSIVE ReplaceCrLf(_)
ReplaceCrLf(s) ==
    IF ~Contains(s, CrLf) THEN s
    ELSE LET j == CHOOSE j \in 1..Len(s) :
                      /\ StartsAt(s, CrLf, j)
                      /\ \A k \in 1..(j - 1) : ~StartsAt(s, CrLf, k)
         IN  SubSeq(s, 1, j - 1) \o <<"\n">> \o ReplaceCrLf(SubSeq(s, j + 2, Len(s)))

\* s.replace('\r', '\n')
ReplaceCr(s) == [i \in 1..Len(s) |-> IF s[i] = "\r" THEN "\n" ELSE s[i]]

MinBlankRun == 3

\* re.sub(r'\n{3,}', '\n\n', s)
RECURSIVE CollapseBlank(_, _)
CollapseBlank(s, i) ==
    IF \A j \in i..Len(s) : Span(s, j, "newline") - j < MinBlankRun
    THEN SubSeq(s, i, Len(s))
    ELSE LET j == CHOOSE j \in i..Len(s) :
                      /\ Span(s, j, "newline") - j >= MinBlankRun
                      /\ \A k \in i..(j - 1) : Span(s, k, "newline") - k < MinBlankRun
         IN  SubSeq(s, i, j - 1) \o <<"\n", "\n">>
                 \o CollapseBlank(s, Span(s, j, "newline"))

\* re.sub and str.replace raise TypeError on a truthy value that is no str
sanitize_traceback(traceback_text) ==
    IF ~Truthy(traceback_text) THEN PyStr(<<>>)
    ELSE IF ~IsStr(traceback_text) THEN Raised("TypeError")
    ELSE LET stripped == AnsiSub(traceback_text.v, 1)
             normalized == ReplaceCr(ReplaceCrLf(stripped))
             collapsed == CollapseBlank(normalized, 1)
         IN  PyStr(Strip(collapsed))

---------------------------------------------------------------------------
\* x in l, for a str x and a list l of names
InList(x, l) == \E i \in 1..Len(l) : NameIs(x, l[i])

---------------------------------------------------------------------------
(* categorize_error *)

\* the dict `categories`, in its order of insertion
Categories ==
    <<<<"Syntax Errors",
         <<"SyntaxError", "IndentationError", "TabError">> >>,
      <<"Name Errors",
         <<"NameError", "UnboundLocalError">> >>,
      <<"Type Errors",
         <<"TypeError">> >>,
      <<"Value Errors",
         <<"ValueError", "UnicodeError", "UnicodeDecodeError",
           "UnicodeEncodeError", "UnicodeTranslateError">> >>,
      <<"Import Errors",
         <<"ImportError", "ModuleNotFoundError">> >>,
      <<"File Errors",
         <<"FileNotFoundError", "FileExistsError", "PermissionError",
           "IsADirectoryError", "NotADirectoryError", "OSError",
           "IOError">> >>,
      <<"Arithmetic Errors",
         <<"ZeroDivisionError", "OverflowError", "FloatingPointError">> >>,
      <<"Index Errors",
         <<"IndexError", "KeyError", "LookupError">> >>,
      <<"Attribute Errors",
         <<"AttributeError">> >>,
      <<"Runtime Errors",
         <<"RuntimeError", "RecursionError", "NotImplementedError">> >>,
      <<"System Errors",
         <<"SystemError", "MemoryError", "SystemExit",
           "KeyboardInterrupt", "GeneratorExit">> >>,
      <<"Assertion Errors",
         <<"AssertionError">> >>>>

\* for category, errors in categories.items(): if error_type in errors
RECURSIVE CategoryScan(_, _)
CategoryScan(error_type, k) ==
    IF k > Len(Categories) THEN Lit("Other")
    ELSE IF IsStr(error_type) /\ InList(error_type.v, Categories[k][2])
         THEN Lit(Categories[k][1])
         ELSE CategoryScan(error_type, k + 1)

\* categorize_error with "Unknown" for every name the table does not list
categorize_error_unlisted_unknown(error_type) ==
    IF ~Truthy(error_type) THEN Lit("Unknown")
    ELSE IF CategoryScan(error_type, 1) = Lit("Other") THEN Lit("Unknown")
    ELSE CategoryScan(error_type, 1)

categorize_error(error_type) ==
    IF ~Truthy(error_type) THEN Lit("Unknown") ELSE CategoryScan(error_type, 1)

---------------------------------------------------------------------------
(* pydecode.mapping: EXCEPTION_MAPPINGS and get_exception_mapping.  The    *)
(* module is not among the sources; the table has the keys its tests name  *)
(* and one record per key, with the four fields decode_traceback reads.    *)

MappedTypes ==
    {"ValueError", "TypeError", "KeyError", "IndexError", "NameError",
     "AttributeError", "SyntaxError", "IndentationError", "ZeroDivisionError",
     "FileNotFoundError", "ImportError", "__unknown__"}

MappingRecord(k) ==
    [simple_explanation |-> Lit("explanation of " \o k),
     fix_suggestion |-> Lit("fix for " \o k),
     tags |-> PyList(<<"tag of " \o k>>),
     emoji |-> Lit("emoji of " \o k)]

EXCEPTION_MAPPINGS == [k \in MappedTypes |-> MappingRecord(k)]

\* get_exception_mapping without the fallback: a miss gives an empty record
get_exception_mapping_no_fallback(exception_type) ==
    IF \E k \in DOMAIN EXCEPTION_MAPPINGS : NameIs(exception_type.v, k)
    THEN EXCEPTION_MAPPINGS[CHOOSE k \in DOMAIN EXCEPTION_MAPPINGS :
                                NameIs(exception_type.v, k)]
    ELSE [simple_explanation |-> None, fix_suggestion |-> None,
          tags |-> PyList(<<>>), emoji |-> None]

\* exact match on the key, the '__unknown__' record on a miss
get_exception_mapping(exception_type) ==
    IF \E k \in DOMAIN EXCEPTION_MAPPINGS : NameIs(exception_type.v, k)
    THEN EXCEPTION_MAPPINGS[CHOOSE k \in DOMAIN EXCEPTION_MAPPINGS :
                                NameIs(exception_type.v, k)]
    ELSE EXCEPTION_MAPPINGS["__unknown__"]

---------------------------------------------------------------------------
(* truncate_long_message, is_syntax_error, parse_syntax_error_details *)

DefaultMaxLength == 200
EllipsisLength == 3

truncate_long_message(message) ==
    IF ~Truthy(message) \/ Len(message.v) <= DefaultMaxLength THEN message
    ELSE PyStr(SubSeq(message.v, 1, DefaultMaxLength - EllipsisLength) \o Chars["..."])

SyntaxErrors == <<"SyntaxError", "IndentationError", "TabError">>

\* is_syntax_error with syntax_errors = ['SyntaxError'] alone
is_syntax_error_one_name(traceback_text) ==
    LET error_type == extract_error_type(traceback_text)
    IN  IF IsRaised(error_type) THEN error_type
        ELSE IF Truthy(error_type)
             THEN PyBool(NameIs(error_type.v, "SyntaxError"))
             ELSE PyBool(FALSE)

\* error_type in syntax_errors if error_type else False
is_syntax_error(traceback_text) ==
    LET error_type == extract_error_type(traceback_text)
    IN  IF IsRaised(error_type) THEN error_type
        ELSE IF Truthy(error_type)
             THEN PyBool(InList(error_type.v, SyntaxErrors))
             ELSE PyBool(FALSE)

NoDetails == [has_caret |-> PyBool(FALSE), caret_position |-> None, problematic_line |-> None]

\* for i, line in enumerate(lines): the lines are numbered from 1 here, and
\* line.index('^') is the 0-based offset of the first caret
RECURSIVE CaretScan(_, _)
CaretScan(lines, k) ==
    IF k > Len(lines) THEN NoDetails
    ELSE IF Find(lines[k], "^") # 0 /\ k > 1
         THEN [has_caret |-> PyBool(TRUE),
               caret_position |-> PyInt(Find(lines[k], "^") - 1),
               problematic_line |-> PyStr(Strip(lines[k - 1]))]
         ELSE CaretScan(lines, k + 1)

\* the scan with "if '^' in line:" for "if '^' in line and i > 0:"
RECURSIVE CaretScanAnyLine(_, _)
CaretScanAnyLine(lines, k) ==
    IF k > Len(lines) THEN NoDetails
    ELSE IF Find(lines[k], "^") # 0
         THEN [has_caret |-> PyBool(TRUE),
               caret_position |-> PyInt(Find(lines[k], "^") - 1),
               problematic_line |-> IF k > 1 THEN PyStr(Strip(lines[k - 1])) ELSE None]
         ELSE CaretScanAnyLine(lines, k + 1)

parse_syntax_error_details_any_line(traceback_text) ==
    IF ~IsStr(traceback_text) THEN Raised("AttributeError")
    ELSE PyDict(CaretScanAnyLine(Split(traceback_text.v, "\n"), 1))

\* traceback_text.split('\n') raises AttributeError for a value that has no
\* split
parse_syntax_error_details(traceback_text) ==
    IF ~IsStr(traceback_text) THEN Raised("AttributeError")
    ELSE PyDict(CaretScan(Split(traceback_text.v, "\n"), 1))

---------------------------------------------------------------------------
(* decode_traceback *)

\* pydecode._version.__branding__
Branding == Lit("__branding__")

InvalidInputResult(add_branding) ==
    PyDict([error_type |-> PyStr(Chars["InvalidInput"]),
            original_message |-> PyStr(Chars["No traceback provided"]),
            simple_explanation |-> Lit("pyDecode needs a valid error traceback to decode. Please provide error text."),
            fix_suggestion |-> Lit("Make sure you're passing a Python error message to decode_traceback()."),
            line_number |-> None,
            file_name |-> None,
            function_name |-> None,
            tags |-> PyList(<<"invalid_input">>),
            category |-> Lit("Input Error"),
            emoji |-> Lit("warning sign"),
            branding |-> IF add_branding THEN Branding ELSE None,
            success |-> PyBool(FALSE),
            raw_traceback |-> PyStr(<<>>)])

\* x or y
PyOr(x, y) == IF Truthy(x) THEN x ELSE y

\* the result dictionary built from the extracted components and the mapping
DecodeResult(clean_traceback, error_type, error_message, line_number, file_name, function_name, mapping, add_branding) ==
    [error_type |-> PyOr(error_type, PyStr(Chars["UnknownError"])),
     original_message |->
         truncate_long_message(
             PyOr(error_message, PyStr(Chars["No message provided"]))),
     simple_explanation |-> mapping.simple_explanation,
     fix_suggestion |-> mapping.fix_suggestion,
     line_number |-> line_number,
     file_name |-> file_name,
     function_name |-> function_name,
     tags |-> mapping.tags,
     category |-> categorize_error(error_type),
     emoji |-> mapping.emoji,
     branding |-> IF add_branding THEN Branding ELSE None,
     success |-> PyBool(FALSE),
     raw_traceback |-> clean_traceback]

\* if is_syntax_error(clean_traceback): result['syntax_details'] = ...
WithSyntaxDetails(clean_traceback, result) ==
    IF is_syntax_error(clean_traceback).v
    THEN PyDict([syntax_details |-> parse_syntax_error_details(clean_traceback)] @@ result)
    ELSE PyDict(result)

\* the steps after error_type = extract_error_type(clean_traceback); an
\* exception raised by that call leaves decode_traceback
DecodeExtracted(clean_traceback, error_type, add_branding) ==
    IF IsRaised(error_type) THEN error_type
    ELSE WithSyntaxDetails(clean_traceback,
             DecodeResult(clean_traceback, error_type,
                          extract_error_message(clean_traceback),
                          extract_line_number(clean_traceback),
                          extract_file_name(clean_traceback),
                          extract_function_name(clean_traceback),
                          get_exception_mapping(PyOr(error_type, PyStr(Chars["__unknown__"]))),
                          add_branding))

\* the steps after clean_traceback = sanitize_traceback(traceback_text)
DecodeClean(clean_traceback, add_branding) ==
    DecodeExtracted(clean_traceback, extract_error_type(clean_traceback), add_branding)

\* decode_traceback with the validation "if not isinstance(traceback_text,
\* str)" alone: the empty str is decoded like any other text
decode_traceback_accepts_empty(traceback_text, add_branding) ==
    IF ~IsStr(traceback_text)
    THEN InvalidInputResult(add_branding)
    ELSE DecodeClean(sanitize_traceback(traceback_text), add_branding)

decode_traceback(traceback_text, add_branding) ==
    IF ~Truthy(traceback_text) \/ ~IsStr(traceback_text)
    THEN InvalidInputResult(add_branding)
    ELSE DecodeClean(sanitize_traceback(traceback_text), add_branding)

---------------------------------------------------------------------------
(* The arguments the operations are called with *)

MaxTypeTokens == 4
MaxFrameTokens == 3
MaxAnsiTokens == 4
MaxCaretTokens == 4

\* ''.join(ts)
RECURSIVE Join(_)
Join(ts) == IF ts = <<>> THEN <<>> ELSE Head(ts) \o Join(Tail(ts))

\* every concatenation of at most n of the pieces
Concats(pieces, n) == {Join(ts) : ts \in UNION {[1..k -> pieces] : k \in 0..n}}

\* pieces of a final 'Type: message' line
TypePieces ==
    {<<"K", "e", "y", "E", "r", "r", "o", "r">>,
     <<"M", "y", "E", "x", "c", "e", "p", "t", "i", "o", "n">>,
     <<"S", "y", "s", "t", "e", "m", "E", "x", "i", "t">>,
     <<"F", "o", "o">>,
     <<"f", "o", "o">>,
     <<":">>,
     <<" ">>,
     <<"\n">>}

\* pieces of the frame lines of a traceback
FramePieces ==
    {<<" ", " ", "F", "i", "l", "e", " ", "\"", "a", ".", "p", "y", "\"", ",", " ", "l", "i", "n", "e", " ", "5", ",", " ", "i", "n", " ">>,
     <<"f", "o", "o">>,
     <<"<", "m", "o", "d", "u", "l", "e", ">">>,
     <<"\n">>,
     <<"l", "i", "n", "e", " ", "1", "2">>,
     <<"l", "i", "n", "e", " ", "0">>,
     <<"F", "i", "l", "e", " ", "\"">>,
     <<"'">>,
     <<"\"">>,
     <<" ">>,
     <<"3">>}

\* pieces of terminal output: escape sequences and line ends
AnsiPieces ==
    {<<"ESC">>,
     <<"[", "m">>,
     <<"M">>,
     <<"\n">>,
     <<"\r">>,
     <<" ">>,
     <<"a">>}

\* values that are no str: None, 0 and 7
NonStrings == {None, PyInt(0), PyInt(7)}

\* pieces of the end of a SyntaxError traceback: source, carets, the type
CaretPieces ==
    {<<"^">>,
     <<" ">>,
     <<"x", " ", "=">>,
     <<"\n">>,
     <<"S", "y", "n", "t", "a", "x", "E", "r", "r", "o", "r">>}

TypeTexts == {PyStr(s) : s \in Concats(TypePieces, MaxTypeTokens)} \cup NonStrings
FrameTexts == {PyStr(s) : s \in Concats(FramePieces, MaxFrameTokens)} \cup NonStrings
AnsiTexts == {PyStr(s) : s \in Concats(AnsiPieces, MaxAnsiTokens)} \cup NonStrings
CaretTexts == {PyStr(s) : s \in Concats(CaretPieces, MaxCaretTokens)} \cup NonStrings

\* the names listed under some category
CategorizedNames == UNION {{Categories[k][2][i] : i \in 1..Len(Categories[k][2])} : k \in 1..Len(Categories)}

\* error types: every name of the two tables, names of neither, names that
\* differ from a listed name in case only, the empty str and None
ErrorTypeNames ==
    CategorizedNames \cup MappedTypes \cup
    {"StopIteration", "UnknownError", "NonExistentError", "TotallyMadeUpError",
     "valueerror", "VALUEERROR", "Keyerror", "Foo", "foo", "MyException",
     "UserWarning", "Error"}

ErrorTypes == {PyStr(Chars[n]) : n \in ErrorTypeNames} \cup {PyStr(<<>>), None}

---------------------------------------------------------------------------
(* safe_run: the code it is given, and the exceptions that code raises     *)

NumCalls == 2
MaxStmts == 2

Calls == 1..NumCalls

\* the stream sys.stdout names before any call; the capture of call c is c
Console == 0
Streams == {Console} \cup Calls

\* the one dict a caller may pass as globals_dict; the dict safe_run makes
\* for call c when it is given none is c
CallerNamespace == 0
Namespaces == {CallerNamespace} \cup Calls

\* the name result is not bound
Unbound == [t |-> "unbound"]

\* A code string is modelled by its lines.  A line prints, binds result,
\* raises, or is no Python at all.
PrintLine == [k |-> "print"]
AssignLine == [k |-> "assign"]
RaiseLine(type, msg) == [k |-> "raise", type |-> type, msg |-> msg]
SyntaxErrorLine == [k |-> "syntax_error"]

\* print('a') writes
PrintedText == <<"a", "\n">>

\* result = 1 binds
AssignedValue == PyInt(1)

BodyLines == {PrintLine, AssignLine}

LastLines ==
    {RaiseLine("ValueError", <<"x">>),
     RaiseLine("ValueError", <<"a", "\n", ":", "b">>),
     RaiseLine("ValueError", <<"a", "\n", "K", "e", "y", "E", "r", "r", "o", "r", ":", " ", "b">>),
     RaiseLine("SystemExit", <<>>),
     RaiseLine("KeyboardInterrupt", <<>>),
     SyntaxErrorLine}

\* at most n body lines
Bodies(n) == UNION {[1..k -> BodyLines] : k \in 0..n}

\* the programs of at most MaxStmts lines in which nothing follows a raise
\* or the line that does not parse
Programs ==
    (Bodies(MaxStmts) \ {<<>>}) \cup
    {Append(b, l) : b \in Bodies(MaxStmts - 1), l \in LastLines}

\* the code arguments: a program, the empty str, None, an int
Codes == {PyStr(p) : p \in Programs} \cup {PyStr(<<>>), None, PyInt(7)}

\* issubclass(type, Exception): of the builtin exceptions these three derive
\* from BaseException only
BaseExceptionOnly == {"SystemExit", "KeyboardInterrupt", "GeneratorExit"}
IsException(type) == type \notin BaseExceptionOnly

\* an exception in flight: its type, its message, the line of the code it
\* comes from, and whether compile or exec raised it
Exc(type, msg, line, stage) ==
    [t |-> "exc", type |-> type, msg |-> msg, line |-> line, stage |-> stage]

\* str(n) for an int n >= 0
RECURSIVE IntToStr(_)
IntToStr(n) ==
    LET d == <<"0", "1", "2", "3", "4", "5", "6", "7", "8", "9">>[(n % 10) + 1]
    IN  IF n < 10 THEN <<d>> ELSE Append(IntToStr(n \div 10), d)

\* The pieces traceback.format_exception renders
TracebackChars ==
    ("header" :>
        <<"T", "r", "a", "c", "e", "b", "a", "c", "k", " ", "(", "m", "o",
          "s", "t", " ", "r", "e", "c", "e", "n", "t", " ", "c", "a", "l",
          "l", " ", "l", "a", "s", "t", ")", ":", "\n">>) @@
    ("exec frame" :>
        <<" ", " ", "F", "i", "l", "e", " ", "\"", "p", "y", "d", "e", "c",
          "o", "d", "e", "/", "c", "o", "r", "e", ".", "p", "y", "\"", ",",
          " ", "l", "i", "n", "e", " ", "2", "5", "9", ",", " ", "i", "n",
          " ", "s", "a", "f", "e", "_", "r", "u", "n", "\n", " ", " ", " ",
          " ", "e", "x", "e", "c", "(", "c", "o", "m", "p", "i", "l", "e",
          "d", "_", "c", "o", "d", "e", ",", " ", "g", "l", "o", "b", "a",
          "l", "s", "_", "d", "i", "c", "t", ",", " ", "l", "o", "c", "a",
          "l", "s", "_", "d", "i", "c", "t", ")", "\n">>) @@
    ("compile frame" :>
        <<" ", " ", "F", "i", "l", "e", " ", "\"", "p", "y", "d", "e", "c",
          "o", "d", "e", "/", "c", "o", "r", "e", ".", "p", "y", "\"", ",",
          " ", "l", "i", "n", "e", " ", "2", "5", "6", ",", " ", "i", "n",
          " ", "s", "a", "f", "e", "_", "r", "u", "n", "\n", " ", " ", " ",
          " ", "c", "o", "m", "p", "i", "l", "e", "d", "_", "c", "o", "d",
          "e", " ", "=", " ", "c", "o", "m", "p", "i", "l", "e", "(", "c",
          "o", "d", "e", ",", " ", "f", "i", "l", "e", "n", "a", "m", "e",
          ",", " ", "'", "e", "x", "e", "c", "'", ")", "\n">>) @@
    ("compile carets" :>
        <<" ", " ", " ", " ", " ", " ", " ", " ", " ", " ", " ", " ", " ",
          " ", " ", " ", " ", " ", " ", " ", "^", "^", "^", "^", "^", "^",
          "^", "^", "^", "^", "^", "^", "^", "^", "^", "^", "^", "^", "^",
          "^", "^", "^", "^", "^", "^", "^", "^", "^", "^", "^", "^", "\n">>) @@
    ("string frame" :>
        <<" ", " ", "F", "i", "l", "e", " ", "\"", "<", "s", "t", "r", "i",
          "n", "g", ">", "\"", ",", " ", "l", "i", "n", "e", " ">>) @@
    ("in module" :>
        <<",", " ", "i", "n", " ", "<", "m", "o", "d", "u", "l", "e", ">",
          "\n">>) @@
    ("bad source" :>
        <<" ", " ", " ", " ", "x", " ", "=", " ", "=", " ", "1", "\n", " ",
          " ", " ", " ", " ", " ", " ", " ", "^", "\n">>) @@
    ("invalid syntax" :>
        <<"S", "y", "n", "t", "a", "x", "E", "r", "r", "o", "r", ":", " ",
          "i", "n", "v", "a", "l", "i", "d", " ", "s", "y", "n", "t", "a",
          "x", "\n">>)

\* 'Type: message\n', or 'Type\n' for an exception without message
ExceptionOnly(e) ==
    Chars[e.type] \o (IF e.msg = <<>> THEN <<>> ELSE <<":", " ">> \o e.msg) \o <<"\n">>

\* ''.join(traceback.format_exception(exc_type, exc_value, exc_traceback)) in
\* the except clause of safe_run: the frame of safe_run, then the frame of
\* the code.  carets tells whether the interpreter underlines the call in
\* the frame of safe_run (3.11 and later do so for compile).
format_exception(e, carets) ==
    IF e.stage = "compile"
    THEN TracebackChars["header"] \o TracebackChars["compile frame"]
         \o (IF carets THEN TracebackChars["compile carets"] ELSE <<>>)
         \o TracebackChars["string frame"] \o IntToStr(e.line) \o <<"\n">>
         \o TracebackChars["bad source"] \o TracebackChars["invalid syntax"]
    ELSE TracebackChars["header"] \o TracebackChars["exec frame"]
         \o TracebackChars["string frame"] \o IntToStr(e.line)
         \o TracebackChars["in module"] \o ExceptionOnly(e)

\* safe_run's answer to code that is empty or no str
InvalidCodeResult(add_branding) ==
    PyDict([success |-> PyBool(FALSE),
            error_type |-> PyStr(Chars["InvalidInput"]),
            original_message |-> Lit("No code provided"),
            simple_explanation |-> Lit("pyDecode needs valid Python code to run. Please provide a code string."),
            fix_suggestion |-> Lit("Pass a string containing Python code to safe_run()."),
            line_number |-> None,
            file_name |-> None,
            function_name |-> None,
            tags |-> PyList(<<"invalid_input">>),
            category |-> Lit("Input Error"),
            emoji |-> Lit("warning sign"),
            branding |-> IF add_branding THEN Branding ELSE None,
            output |-> PyStr(<<>>),
            raw_traceback |-> PyStr(<<>>)])

\* safe_run's answer when the code ran to its end
SuccessResult(captured_output, result, add_branding) ==
    PyDict([success |-> PyBool(TRUE),
            output |-> PyStr(captured_output),
            result |-> IF result = Unbound THEN None ELSE result,
            branding |-> IF add_branding THEN Branding ELSE None,
            message |-> Lit("Code executed successfully!")])

\* decoded["output"] = captured_output; return decoded.  An exception that
\* decode_traceback raises leaves safe_run.
WithOutput(decoded, captured_output) ==
    IF IsRaised(decoded) THEN decoded
    ELSE PyDict([output |-> PyStr(captured_output)] @@ decoded.v)

\* the first line of the code that does not parse, 0 if all parse
FirstSyntaxError(lines) ==
    IF \E i \in 1..Len(lines) : lines[i] = SyntaxErrorLine
    THEN CHOOSE i \in 1..Len(lines) :
             /\ lines[i] = SyntaxErrorLine
             /\ \A j \in 1..(i - 1) : lines[j] # SyntaxErrorLine
    ELSE 0

---------------------------------------------------------------------------
(* decode_exception and format_exception_from_object                       *)

\* at most this many frames in the __traceback__ of an exception
MaxTracebackFrames == 2

\* one entry of a traceback: the file, the line, the function, and the
\* lines shown under it (none when the source cannot be read)
Frame(file, line, name, source) ==
    [file |-> file, line |-> line, name |-> name, source |-> source]

Frames ==
    {Frame(<<"/", "h", "o", "m", "e", "/", "u", "s", "e", "r", "/", "a", "p", "p", ".", "p", "y">>, 3, <<"r", "u", "n">>,
           <<" ", " ", " ", " ", "r", "u", "n", "(", ")", "\n">>),
     Frame(<<"/", "h", "o", "m", "e", "/", "u", "s", "e", "r", "/", "a", "p", "p", ".", "p", "y">>, 3, <<"r", "u", "n">>,
           <<" ", " ", " ", " ", "r", "u", "n", "(", ")", "\n">> \o
           <<" ", " ", " ", " ", "^", "^", "^", "^", "^", "\n">>),
     Frame(<<"<", "s", "t", "r", "i", "n", "g", ">">>, 1, <<"<", "m", "o", "d", "u", "l", "e", ">">>, <<>>)}

\* an exception object: type(exc).__name__, str(exc), exc.__traceback__
ExcObject(type, msg, tb) == [t |-> "exception", type |-> type, msg |-> msg, tb |-> tb]

\* isinstance(x, BaseException)
IsBaseException(x) == x.t = "exception"

ExcTypes == {"ValueError", "KeyError", "SystemExit", "MyException"}

ExcMessages ==
    {<<>>, <<"x">>, <<"a", "\n", ":", "b">>,
     <<"a", "\n", "K", "e", "y", "E", "r", "r", "o", "r", ":", " ", "b">>}

\* the exceptions handed to decode_exception: never raised (no traceback)
\* or caught with a traceback of some frames
Exceptions ==
    {ExcObject(type, msg, tb) :
        type \in ExcTypes, msg \in ExcMessages,
        tb \in UNION {[1..k -> Frames] : k \in 0..MaxTracebackFrames}}

\* values that are no exception: None, ints, and strs, a traceback among them
NonExceptions ==
    NonStrings \cup {PyStr(<<>>), PyStr(<<"V", "a", "l", "u", "e", "E", "r", "r", "o", "r", ":", " ", "x">>), PyStr(Chars["KeyError"])}

\* '  File "<file>", line <line>, in <name>\n' and the lines under it
FrameChars(f) ==
    <<" ", " ", "F", "i", "l", "e", " ", "\"">> \o f.file \o <<"\"", ",", " ", "l", "i", "n", "e", " ">>
    \o IntToStr(f.line) \o <<",", " ", "i", "n", " ">> \o f.name \o <<"\n">> \o f.source

\* the frames of a traceback, outermost first
RECURSIVE TracebackFrames(_)
TracebackFrames(tb) ==
    IF tb = <<>> THEN <<>> ELSE FrameChars(Head(tb)) \o TracebackFrames(Tail(tb))

\* ''.join(traceback.format_exception(type(exc), exc, exc.__traceback__)):
\* the header and the frames when there is a traceback, then the exception
format_exception_from_object(exc) ==
    IF ~IsBaseException(exc) THEN Raised("AttributeError")
    ELSE PyStr((IF exc.tb = <<>> THEN <<>>
                ELSE TracebackChars["header"] \o TracebackFrames(exc.tb))
               \o ExceptionOnly(exc))

\* decode_exception's answer to a value that is no exception
InvalidExceptionResult(add_branding) ==
    PyDict([error_type |-> PyStr(Chars["InvalidInput"]),
            original_message |-> Lit("Not a valid exception object"),
            simple_explanation |-> Lit("pyDecode needs a valid Exception object. Please pass an exception caught in try-except."),
            fix_suggestion |-> Lit("Use decode_exception() only with exception objects from except blocks."),
            line_number |-> None,
            file_name |-> None,
            function_name |-> None,
            tags |-> PyList(<<"invalid_input">>),
            category |-> Lit("Input Error"),
            emoji |-> Lit("warning sign"),
            branding |-> IF add_branding THEN Branding ELSE None,
            success |-> PyBool(FALSE),
            raw_traceback |-> PyStr(<<>>)])

\* decode_exception that does not hand its add_branding on: decode_traceback
\* runs with its default, True
decode_exception_default_branding(exception, add_branding) ==
    IF ~IsBaseException(exception)
    THEN InvalidExceptionResult(add_branding)
    ELSE decode_traceback(format_exception_from_object(exception), TRUE)

decode_exception(exception, add_branding) ==
    IF ~IsBaseException(exception)
    THEN InvalidExceptionResult(add_branding)
    ELSE decode_traceback(format_exception_from_object(exception), add_branding)

---------------------------------------------------------------------------
(* pyexplain-run: the command line and the file it is given                *)

\* what create_parser().parse_args(argv) gives main: --version, a file
\* argument or none, --no-branding.  --technical, --no-color, --quiet and
\* --raw change what is printed only.
Args(version, given, no_branding) ==
    [version |-> version, given |-> given, no_branding |-> no_branding]
ArgSets == {Args(v, g, n) : v \in BOOLEAN, g \in BOOLEAN, n \in BOOLEAN}

\* what is at the path: nothing, a directory, a file open() fails on, or a
\* file with some contents
Missing == [k |-> "missing"]
Directory == [k |-> "directory"]
Unreadable == [k |-> "unreadable"]
FileWith(contents) == [k |-> "file", contents |-> contents]
Files ==
    {Missing, Directory, Unreadable} \cup {FileWith(cd) : cd \in {x \in Codes : IsStr(x)}}

\* main has not been called
CliIdle ==
    /\ args = Args(FALSE, FALSE, FALSE)
    /\ path = Missing
    /\ cli_pc = "none"
    /\ exit_code = None

\* the tags lists of the table as the module builds them, no result held
TableFresh ==
    /\ mapping_tags = [k \in MappedTypes |-> EXCEPTION_MAPPINGS[k].tags.v]
    /\ held = <<>>

---------------------------------------------------------------------------
(* The operations on a text.  Each is one call: op names the function and  *)
(* out holds what it returned or raised.                                   *)

\* no call of safe_run has begun
RunIdle ==
    /\ code = [c \in Calls |-> None]
    /\ globals_dict = [c \in Calls |-> c]
    /\ pc = [c \in Calls |-> "idle"]
    /\ ip = [c \in Calls |-> 1]
    /\ fault = [c \in Calls |-> None]
    /\ ret = [c \in Calls |-> None]
    /\ capture = [c \in Calls |-> <<>>]
    /\ old_targets = [c \in Calls |-> Console]
    /\ sys_stdout = Console
    /\ console = <<>>
    /\ namespace = [n \in Namespaces |-> Unbound]
    /\ printed = [c \in Calls |-> <<>>]

InitCommon ==
    /\ op = "none"
    /\ out = None
    /\ branding_arg = TRUE
    /\ RunIdle
    /\ CliIdle
    /\ TableFresh

InitType == text \in TypeTexts /\ InitCommon
InitFrames == text \in FrameTexts /\ InitCommon
InitAnsi == text \in AnsiTexts /\ InitCommon
InitTable == text \in ErrorTypes /\ InitCommon

Returns(name, value) ==
    /\ op = "none"
    /\ op' = name
    /\ out' = value
    /\ UNCHANGED <<text, branding_arg>>
    /\ UNCHANGED <<runVars, cliVars, tableVars>>

Call_extract_error_type == Returns("extract_error_type", extract_error_type(text))

Call_extract_error_message == Returns("extract_error_message", extract_error_message(text))

Call_extract_line_number == Returns("extract_line_number", extract_line_number(text))

Call_extract_file_name == Returns("extract_file_name", extract_file_name(text))

Call_extract_function_name == Returns("extract_function_name", extract_function_name(text))

Call_sanitize_traceback == Returns("sanitize_traceback", sanitize_traceback(text))

Call_categorize_error == Returns("categorize_error", categorize_error(text))

Call_get_exception_mapping ==
    /\ IsStr(text)
    /\ Returns("get_exception_mapping", PyDict(get_exception_mapping(text)))

Call_decode_traceback ==
    \E b \in BOOLEAN :
        /\ op = "none"
        /\ op' = "decode_traceback"
        /\ branding_arg' = b
        /\ out' = decode_traceback(text, b)
        /\ UNCHANGED text
        /\ UNCHANGED <<runVars, cliVars, tableVars>>

Call_format_exception_from_object ==
    Returns("format_exception_from_object", format_exception_from_object(text))

Call_decode_exception ==
    \E b \in BOOLEAN :
        /\ op = "none"
        /\ op' = "decode_exception"
        /\ branding_arg' = b
        /\ out' = decode_exception(text, b)
        /\ UNCHANGED text
        /\ UNCHANGED <<runVars, cliVars, tableVars>>

NextText ==
    \/ Call_extract_error_type
    \/ Call_extract_error_message
    \/ Call_extract_line_number
    \/ Call_extract_file_name
    \/ Call_extract_function_name
    \/ Call_sanitize_traceback
    \/ Call_categorize_error
    \/ Call_get_exception_mapping
    \/ Call_decode_traceback

SpecType == InitType /\ [][NextText]_vars
SpecFrames == InitFrames /\ [][NextText]_vars
SpecAnsi == InitAnsi /\ [][NextText]_vars
SpecTable == InitTable /\ [][NextText]_vars

\* decode that hands every value that is no exception to decode_traceback,
\* which answers a value that is no str with the invalid-input result
decode_never_raises(input_data, add_branding) ==
    IF IsBaseException(input_data) THEN decode_exception(input_data, add_branding)
    ELSE decode_traceback(input_data, add_branding)

\* pyexplain.decode(input_data, add_branding=add_branding)
decode(input_data, add_branding) ==
    IF IsBaseException(input_data) THEN decode_exception(input_data, add_branding)
    ELSE IF IsStr(input_data) THEN decode_traceback(input_data, add_branding)
    ELSE Raised("TypeError")

Call_decode ==
    \E b \in BOOLEAN :
        /\ op = "none"
        /\ op' = "decode"
        /\ branding_arg' = b
        /\ out' = decode(text, b)
        /\ UNCHANGED text
        /\ UNCHANGED <<runVars, cliVars, tableVars>>

\* the operations on the caret lines of a SyntaxError traceback
Call_is_syntax_error == Returns("is_syntax_error", is_syntax_error(text))

Call_parse_syntax_error_details ==
    Returns("parse_syntax_error_details", parse_syntax_error_details(text))

InitCaret == text \in CaretTexts /\ InitCommon

NextCaret ==
    \/ Call_is_syntax_error
    \/ Call_parse_syntax_error_details
    \/ Call_decode_traceback

SpecCaret == InitCaret /\ [][NextCaret]_vars

\* the operations on an exception object, and decode_traceback given one
InitException == text \in (Exceptions \cup NonExceptions) /\ InitCommon

NextException ==
    \/ Call_format_exception_from_object
    \/ Call_decode_exception
    \/ Call_decode_traceback
    \/ Call_decode

SpecException == InitException /\ [][NextException]_vars

---------------------------------------------------------------------------
(* safe_run, one action per step of a call                                 *)

InitRun ==
    /\ text = None
    /\ op = "none"
    /\ out = None
    /\ branding_arg \in BOOLEAN
    /\ RunIdle
    /\ CliIdle
    /\ TableFresh

\* safe_run that keeps the dict it made for the first call and uses it for
\* every later call that is given no namespace
safe_run_kept_default(c, cd, g) ==
    /\ pc[c] = "idle"
    /\ code' = [code EXCEPT ![c] = cd]
    /\ IF ~Truthy(cd) \/ ~IsStr(cd)
       THEN /\ ret' = [ret EXCEPT ![c] = InvalidCodeResult(branding_arg)]
            /\ pc' = [pc EXCEPT ![c] = "done"]
            /\ UNCHANGED globals_dict
       ELSE /\ globals_dict' = [globals_dict EXCEPT ![c] = IF g = c THEN 1 ELSE g]
            /\ pc' = [pc EXCEPT ![c] = "enter"]
            /\ UNCHANGED ret
    /\ UNCHANGED <<ip, fault, capture, old_targets, sys_stdout, console, namespace, printed>>
    /\ UNCHANGED <<text, branding_arg, op, out, tableVars>>

\* safe_run(code, globals_dict=g, add_branding=branding_arg) up to the try:
\* the input validation, the namespaces and the new StringIO
safe_run(c, cd, g) ==
    /\ pc[c] = "idle"
    /\ code' = [code EXCEPT ![c] = cd]
    /\ IF ~Truthy(cd) \/ ~IsStr(cd)
       THEN /\ ret' = [ret EXCEPT ![c] = InvalidCodeResult(branding_arg)]
            /\ pc' = [pc EXCEPT ![c] = "done"]
            /\ UNCHANGED globals_dict
       ELSE /\ globals_dict' = [globals_dict EXCEPT ![c] = g]
            /\ pc' = [pc EXCEPT ![c] = "enter"]
            /\ UNCHANGED ret
    /\ UNCHANGED <<ip, fault, capture, old_targets, sys_stdout, console, namespace, printed>>
    /\ UNCHANGED <<text, branding_arg, op, out, tableVars>>

\* a call with any of the codes, in a namespace of its own or in the caller's
SafeRunCall(c) ==
    /\ \E cd \in Codes, g \in {c, CallerNamespace} : safe_run(c, cd, g)
    /\ UNCHANGED cliVars

\* contextlib.redirect_stdout.__enter__: save sys.stdout, install the capture
RedirectEnter(c) ==
    /\ pc[c] = "enter"
    /\ old_targets' = [old_targets EXCEPT ![c] = sys_stdout]
    /\ sys_stdout' = c
    /\ pc' = [pc EXCEPT ![c] = "compile"]
    /\ UNCHANGED <<code, globals_dict, ip, fault, ret, capture, console, namespace, printed>>
    /\ UNCHANGED <<text, branding_arg, op, out, cliVars, tableVars>>

\* compile(code, filename, 'exec'): raises SyntaxError at the first line
\* that does not parse
Compile(c) ==
    /\ pc[c] = "compile"
    /\ IF FirstSyntaxError(code[c].v) # 0
       THEN /\ fault' = [fault EXCEPT ![c] =
                            Exc("SyntaxError", <<>>, FirstSyntaxError(code[c].v), "compile")]
            /\ pc' = [pc EXCEPT ![c] = "exit"]
       ELSE /\ pc' = [pc EXCEPT ![c] = "exec"]
            /\ UNCHANGED fault
    /\ ip' = [ip EXCEPT ![c] = 1]
    /\ UNCHANGED <<code, globals_dict, ret, capture, old_targets, sys_stdout, console, namespace, printed>>
    /\ UNCHANGED <<text, branding_arg, op, out, cliVars, tableVars>>

\* print writes to the stream sys.stdout names when it runs
Write(stream, s) ==
    IF stream = Console
    THEN /\ console' = console \o s
         /\ UNCHANGED capture
    ELSE /\ capture' = [capture EXCEPT ![stream] = @ \o s]
         /\ UNCHANGED console

\* exec(compiled_code, globals_dict, locals_dict), one line of the code
ExecStmt(c) ==
    /\ pc[c] = "exec"
    /\ LET line == code[c].v[ip[c]]
           last == ip[c] = Len(code[c].v)
       IN  /\ CASE line.k = "print" ->
                      /\ Write(sys_stdout, PrintedText)
                      /\ printed' = [printed EXCEPT ![c] = @ \o PrintedText]
                      /\ UNCHANGED <<namespace, fault>>
                [] line.k = "assign" ->
                      /\ namespace' = [namespace EXCEPT ![globals_dict[c]] = AssignedValue]
                      /\ UNCHANGED <<capture, console, printed, fault>>
                [] line.k = "raise" ->
                      /\ fault' = [fault EXCEPT ![c] = Exc(line.type, line.msg, ip[c], "exec")]
                      /\ UNCHANGED <<capture, console, printed, namespace>>
           /\ IF line.k = "raise" \/ last
              THEN /\ pc' = [pc EXCEPT ![c] = "exit"]
                   /\ UNCHANGED ip
              ELSE /\ ip' = [ip EXCEPT ![c] = @ + 1]
                   /\ UNCHANGED pc
    /\ UNCHANGED <<code, globals_dict, ret, old_targets, sys_stdout>>
    /\ UNCHANGED <<text, branding_arg, op, out, cliVars, tableVars>>

\* contextlib.redirect_stdout.__exit__: put the saved stream back.  Then the
\* exception in flight, if any, reaches the except clause, which takes an
\* Exception and lets every other BaseException leave safe_run.
RedirectExit(c) ==
    /\ pc[c] = "exit"
    /\ sys_stdout' = old_targets[c]
    /\ IF fault[c] = None
       THEN /\ pc' = [pc EXCEPT ![c] = "return"]
            /\ UNCHANGED ret
       ELSE IF IsException(fault[c].type)
            THEN /\ pc' = [pc EXCEPT ![c] = "except"]
                 /\ UNCHANGED ret
            ELSE /\ pc' = [pc EXCEPT ![c] = "done"]
                 /\ ret' = [ret EXCEPT ![c] = Raised(fault[c].type)]
    /\ UNCHANGED <<code, globals_dict, ip, fault, capture, old_targets, console, namespace, printed>>
    /\ UNCHANGED <<text, branding_arg, op, out, cliVars, tableVars>>

\* the success case: stdout_capture.getvalue(), locals_dict.get('result')
ReturnSuccess(c) ==
    /\ pc[c] = "return"
    /\ ret' = [ret EXCEPT ![c] =
                  SuccessResult(capture[c], namespace[globals_dict[c]], branding_arg)]
    /\ pc' = [pc EXCEPT ![c] = "done"]
    /\ UNCHANGED <<code, globals_dict, ip, fault, capture, old_targets, sys_stdout, console, namespace, printed>>
    /\ UNCHANGED <<text, branding_arg, op, out, cliVars, tableVars>>

\* except Exception as e: render the traceback, decode it, add the output
HandleException(c) ==
    /\ pc[c] = "except"
    /\ \E carets \in BOOLEAN :
           ret' = [ret EXCEPT ![c] =
                      WithOutput(decode_traceback(PyStr(format_exception(fault[c], carets)),
                                                  branding_arg),
                                 capture[c])]
    /\ pc' = [pc EXCEPT ![c] = "done"]
    /\ UNCHANGED <<code, globals_dict, ip, fault, capture, old_targets, sys_stdout, console, namespace, printed>>
    /\ UNCHANGED <<text, branding_arg, op, out, cliVars, tableVars>>

\* the calls are made one after another: a call takes a step only while no
\* other call is under way
Sequential(c) == \A d \in Calls \ {c} : pc[d] \in {"idle", "done"}

NextRun ==
    \E c \in Calls :
        \/ Sequential(c) /\ SafeRunCall(c)
        \/ Sequential(c) /\ RedirectEnter(c)
        \/ Sequential(c) /\ Compile(c)
        \/ Sequential(c) /\ ExecStmt(c)
        \/ Sequential(c) /\ RedirectExit(c)
        \/ Sequential(c) /\ ReturnSuccess(c)
        \/ Sequential(c) /\ HandleException(c)

SpecRun == InitRun /\ [][NextRun]_vars

---------------------------------------------------------------------------
(* safe_run called from several threads: the steps of the calls interleave *)

\* the codes of the overlapping calls: each prints, the last one then raises
OverlapCodes ==
    {PyStr(<<PrintLine>>),
     PyStr(<<PrintLine, AssignLine>>),
     PyStr(<<PrintLine, RaiseLine("ValueError", <<"x">>)>>)}

\* a call with one of these codes and no namespace passed
OverlapCall(c) ==
    /\ \E cd \in OverlapCodes : safe_run(c, cd, c)
    /\ UNCHANGED cliVars

NextOverlap ==
    \E c \in Calls :
        \/ OverlapCall(c)
        \/ RedirectEnter(c)
        \/ Compile(c)
        \/ ExecStmt(c)
        \/ RedirectExit(c)
        \/ ReturnSuccess(c)
        \/ HandleException(c)

SpecOverlap == InitRun /\ [][NextOverlap]_vars

---------------------------------------------------------------------------
(* decode_traceback and the lists of the table: the result's tags is the   *)
(* list of the record, not a copy of it                                     *)

\* at most this many results are held, and at most this many appends are
\* made to one list
MaxHeld == 2
MaxAppends == 1

\* the tracebacks decoded: two mapped types, an unmapped type, no type, and
\* the empty str
HeldTexts ==
    {PyStr(<<"K", "e", "y", "E", "r", "r", "o", "r", ":", " ", "x">>),
     PyStr(<<"V", "a", "l", "u", "e", "E", "r", "r", "o", "r", ":", " ", "x">>),
     PyStr(<<"F", "o", "o", ":", " ", "x">>),
     PyStr(<<"f", "o", "o">>),
     PyStr(<<>>)}

\* the key of the record get_exception_mapping returns
MappingKey(exception_type) ==
    IF \E k \in DOMAIN EXCEPTION_MAPPINGS : NameIs(exception_type.v, k)
    THEN CHOOSE k \in DOMAIN EXCEPTION_MAPPINGS : NameIs(exception_type.v, k)
    ELSE "__unknown__"

\* the list that result["tags"] is: the list of the record looked up
\* ("tags": mapping["tags"]), or a list of the result's own for invalid
\* input ("tags": ["invalid_input"])
TagsList(traceback_text) ==
    IF ~Truthy(traceback_text) \/ ~IsStr(traceback_text)
    THEN "own"
    ELSE MappingKey(PyOr(extract_error_type(sanitize_traceback(traceback_text)),
                         PyStr(Chars["__unknown__"])))

\* a held result: the call it came from, the dict as it was returned, the
\* list its tags is, and the contents of that list when it is its own
Held(traceback_text, add_branding, returned, list) ==
    [text |-> traceback_text, branding |-> add_branding, returned |-> returned,
     list |-> list, own |-> <<"invalid_input">>]

\* the dict decode_traceback returns, its tags read from the list as it is
Returned(decoded, list) ==
    IF list = "own" THEN decoded
    ELSE PyDict([decoded.v EXCEPT !.tags = PyList(mapping_tags[list])])

\* result = decode_traceback(text, add_branding=b), the result kept
DecodeAndHold ==
    /\ Len(held) < MaxHeld
    /\ \E t \in HeldTexts, b \in BOOLEAN :
           held' = Append(held, Held(t, b, Returned(decode_traceback(t, b), TagsList(t)),
                                     TagsList(t)))
    /\ UNCHANGED mapping_tags
    /\ UNCHANGED <<text, branding_arg, op, out, runVars, cliVars>>

\* result["tags"].append("mine") on a held result
AppendTag ==
    /\ \E i \in 1..Len(held) :
           IF held[i].list = "own"
           THEN /\ Len(held[i].own) <= MaxAppends
                /\ held' = [held EXCEPT ![i].own = Append(@, "mine")]
                /\ UNCHANGED mapping_tags
           ELSE /\ Len(mapping_tags[held[i].list]) <= MaxAppends
                /\ mapping_tags' = [mapping_tags EXCEPT ![held[i].list] = Append(@, "mine")]
                /\ UNCHANGED held
    /\ UNCHANGED <<text, branding_arg, op, out, runVars, cliVars>>

InitTags ==
    /\ text = None
    /\ op = "none"
    /\ out = None
    /\ branding_arg = TRUE
    /\ RunIdle
    /\ CliIdle
    /\ TableFresh

NextTags ==
    \/ DecodeAndHold
    \/ AppendTag

SpecTags == InitTags /\ [][NextTags]_vars

---------------------------------------------------------------------------
(* pyexplain-run: main and run_file, the call of safe_run being call 1     *)

InitCli ==
    /\ text = None
    /\ op = "none"
    /\ out = None
    /\ args \in ArgSets
    /\ path \in Files
    /\ branding_arg = ~args.no_branding
    /\ cli_pc = "main"
    /\ exit_code = None
    /\ RunIdle
    /\ TableFresh

\* main up to the call of run_file
Main ==
    /\ cli_pc = "main"
    /\ IF args.version
       THEN /\ exit_code' = PyInt(0)
            /\ cli_pc' = "exited"
       ELSE IF ~args.given
            THEN /\ exit_code' = PyInt(1)
                 /\ cli_pc' = "exited"
            ELSE /\ cli_pc' = "run_file"
                 /\ UNCHANGED exit_code
    /\ UNCHANGED <<args, path>>
    /\ UNCHANGED <<text, branding_arg, op, out, runVars, tableVars>>

\* run_file up to the call of safe_run: path.exists(), path.is_file(), the
\* read of the file, then safe_run(code, filename=str(path),
\* add_branding=branding) with no namespace passed
RunFileRead ==
    /\ cli_pc = "run_file"
    /\ IF path.k \in {"missing", "directory", "unreadable"}
       THEN /\ exit_code' = PyInt(1)
            /\ cli_pc' = "exited"
            /\ UNCHANGED <<text, branding_arg, op, out, runVars, tableVars>>
       ELSE /\ safe_run(1, path.contents, 1)
            /\ cli_pc' = "safe_run"
            /\ UNCHANGED exit_code
    /\ UNCHANGED <<args, path>>

\* run_file after safe_run: 0 if result.get('success'), else 1; what
\* safe_run raises leaves run_file and main
RunFileReturn ==
    /\ cli_pc = "safe_run"
    /\ pc[1] = "done"
    /\ exit_code' = IF IsRaised(ret[1]) THEN ret[1]
                    ELSE IF Truthy(ret[1].v.success) THEN PyInt(0) ELSE PyInt(1)
    /\ cli_pc' = "exited"
    /\ UNCHANGED <<args, path>>
    /\ UNCHANGED <<text, branding_arg, op, out, runVars, tableVars>>

NextCli ==
    \/ Main
    \/ RunFileRead
    \/ cli_pc = "safe_run" /\ RedirectEnter(1)
    \/ cli_pc = "safe_run" /\ Compile(1)
    \/ cli_pc = "safe_run" /\ ExecStmt(1)
    \/ cli_pc = "safe_run" /\ RedirectExit(1)
    \/ cli_pc = "safe_run" /\ ReturnSuccess(1)
    \/ cli_pc = "safe_run" /\ HandleException(1)
    \/ RunFileReturn

SpecCli == InitCli /\ [][NextCli]_vars

---------------------------------------------------------------------------
(* What the operations are required to do                                   *)

\* the greatest and the least member of a non-empty set of integers
Greatest(S) == CHOOSE x \in S : \A y \in S : y <= x
Least(S) == CHOOSE x \in S : \A y \in S : x <= y

\* s without the white space at its two ends
Trim(s) ==
    LET inner == {j \in 1..Len(s) : ~IsSpace(s[j])}
    IN  IF inner = {} THEN <<>> ELSE SubSeq(s, Least(inner), Greatest(inner))

\* the last line of s that holds more than white space, trimmed; <<>> when
\* s has no such line
LastNonBlankLine(s) ==
    LET ls == Split(s, "\n")
        full == {k \in 1..Len(ls) : Trim(ls[k]) # <<>>}
    IN  IF full = {} THEN <<>> ELSE Trim(ls[Greatest(full)])

ExtractionOps ==
    {"extract_error_type", "extract_error_message", "extract_line_number",
     "extract_file_name", "extract_function_name", "decode_traceback"}

\* C1: each of the five extractors and decode_traceback returns a value for
\* every input, the empty str, None, a value that is no str and every
\* malformed text included; none of them raises.
C1_NeverRaises == op \in ExtractionOps => ~IsRaised(out)

\* C2: a call of safe_run with a non-empty code string returns normally
\* whatever the code raises, SystemExit and KeyboardInterrupt included, and
\* when the code raised the result has success false.
C2_NeverPropagates ==
    \A c \in Calls :
        pc[c] = "done" /\ IsStr(code[c]) /\ Truthy(code[c])
        => /\ ~IsRaised(ret[c])
           /\ fault[c] # None => ret[c].v.success = PyBool(FALSE)

\* C3: sanitize_traceback is idempotent: sanitizing its result again gives
\* the same result, for every str.
C3_Idempotent ==
    op = "sanitize_traceback" /\ IsStr(text) => sanitize_traceback(out) = out

\* the lines of s that contain both "File" and "in"
FrameLines(s) ==
    LET ls == Split(s, "\n")
    IN  {k \in 1..Len(ls) : Contains(ls[k], WordFile) /\ Contains(ls[k], WordIn)}

\* line l ends with "in" and, after white space, the word w
EndsWithIn(l, w) ==
    LET t == Trim(l)
        n == Len(t) - Len(w)
    IN  /\ n >= Len(WordIn) + 1
        /\ SubSeq(t, n + 1, Len(t)) = w
        /\ \E i \in 1..(n - Len(WordIn)) :
               /\ StartsAt(t, WordIn, i)
               /\ \A k \in (i + Len(WordIn))..n : IsSpace(t[k])

\* C4: extract_function_name looks at the last line that contains both
\* "File" and "in": when that frame is the module-level frame, in <module>,
\* it returns the label "main script"; when no line qualifies it returns
\* None.
C4_ModuleIsMainScript ==
    op = "extract_function_name" /\ IsStr(text) /\ Truthy(text)
    => LET ls == Split(text.v, "\n")
           frames == FrameLines(text.v)
       IN  /\ frames = {} => out = None
           /\ frames # {} /\ EndsWithIn(ls[Greatest(frames)], Chars["<module>"])
              => out = PyStr(Chars["main script"])

\* an occurrence of line <digits> starts at i with its first digit at d: the
\* word line, white space, a digit
LineOccurs(s, i, d) ==
    /\ StartsAt(s, WordLine, i)
    /\ d > i + Len(WordLine)
    /\ d <= Len(s)
    /\ \A k \in (i + Len(WordLine))..(d - 1) : IsSpace(s[k])
    /\ IsDigit(s[d])

\* where occurrences of line <digits> start
LineOccurrences(s) == {i \in 1..Len(s) : \E d \in i..Len(s) : LineOccurs(s, i, d)}

\* the digits of the occurrence that starts at i
LineDigits(s, i) ==
    LET d == CHOOSE d \in i..Len(s) : LineOccurs(s, i, d)
        e == Greatest({e \in d..Len(s) : \A k \in d..e : IsDigit(s[k])})
    IN  SubSeq(s, d, e)

\* C5: extract_line_number returns the integer of the occurrence of
\* line <digits> that comes last in the text, whatever the values of the
\* other occurrences, and None when the text has no occurrence.
C5_LastLineNumber ==
    op = "extract_line_number"
    => IF IsStr(text) /\ LineOccurrences(text.v) # {}
       THEN out = PyInt(ToInt(LineDigits(text.v, Greatest(LineOccurrences(text.v)))))
       ELSE out = None

\* two occurrences, the last one holding the smaller number
C5_LastNotLargest ==
    /\ op = "extract_line_number"
    /\ IsStr(text)
    /\ Cardinality(LineOccurrences(text.v)) = 2
    /\ ToInt(LineDigits(text.v, Least(LineOccurrences(text.v)))) > out.v

\* an occurrence of File "<path>" or File '<path>' starts at i, its path
\* running from a to b: the word File, white space, a quote, a non-empty
\* path without that quote, the same quote
FileOccurs(s, i, a, b) ==
    /\ StartsAt(s, WordFile, i)
    /\ a > i + Len(WordFile) + 1
    /\ a <= b
    /\ b < Len(s)
    /\ \A k \in (i + Len(WordFile))..(a - 2) : IsSpace(s[k])
    /\ IsQuote(s[a - 1])
    /\ s[b + 1] = s[a - 1]
    /\ \A k \in a..b : s[k] # s[a - 1]

\* where occurrences of File "<path>" start
FileOccurrences(s) ==
    {i \in 1..Len(s) : \E a \in i..Len(s), b \in i..Len(s) : FileOccurs(s, i, a, b)}

\* the path of the occurrence that starts at i
FilePath(s, i) ==
    LET ab == CHOOSE ab \in (i..Len(s)) \X (i..Len(s)) : FileOccurs(s, i, ab[1], ab[2])
    IN  SubSeq(s, ab[1], ab[2])

\* C6: extract_file_name returns the path of the last occurrence in the
\* text of File "<path>" or File '<path>', and None when there is none.
C6_LastFilePath ==
    op = "extract_file_name" /\ IsStr(text)
    => IF FileOccurrences(text.v) # {}
       THEN out = PyStr(FilePath(text.v, Greatest(FileOccurrences(text.v))))
       ELSE out = None

\* the leading token of a line: what stands before its first ':' or white
\* space
LeadingToken(l) ==
    LET stops == {j \in 1..Len(l) : l[j] = ":" \/ IsSpace(l[j])}
    IN  IF stops = {} THEN l ELSE SubSeq(l, 1, Least(stops) - 1)

\* the patterns that match line l
Matching(l) == {k \in 1..NumPatterns : PatternGroup(k, l) # <<>>}

\* C7: extract_error_type depends on the last non-blank line only: it
\* returns the name the earliest matching pattern captures; when no pattern
\* matches it returns the leading token of the line if that token is
\* capitalized and None otherwise.
C7_TypeOfLastLine ==
    op = "extract_error_type" /\ IsStr(text)
    => LET l == LastNonBlankLine(text.v)
       IN  IF Matching(l) # {}
           THEN out = PyStr(PatternGroup(Least(Matching(l)), l))
           ELSE IF LeadingToken(l) # <<>> /\ LeadingToken(l)[1] \in Upper
                THEN out = PyStr(LeadingToken(l))
                ELSE out = None

\* C8: extract_error_message returns what follows the first ':' of the last
\* non-blank line, trimmed, later colons included; it returns None when the
\* line has no colon or nothing but white space follows the colon, and so
\* never the empty str.
C8_MessageAfterFirstColon ==
    op = "extract_error_message"
    => /\ out # PyStr(<<>>)
       /\ IF IsStr(text) /\ Find(LastNonBlankLine(text.v), ":") # 0
          THEN LET l == LastNonBlankLine(text.v)
                   colons == {j \in 1..Len(l) : l[j] = ":"}
                   message == Trim(SubSeq(l, Least(colons) + 1, Len(l)))
               IN  out = IF message = <<>> THEN None ELSE PyStr(message)
          ELSE out = None

\* a message that keeps a later colon
C8_LaterColonKept ==
    /\ op = "extract_error_message"
    /\ IsStr(out)
    /\ Find(out.v, ":") # 0

\* the categories that list name n
CategoriesOf(n) == {k \in 1..Len(Categories) : InList(Chars[n], Categories[k][2])}

\* C9: categorize_error is an exact, case-sensitive lookup in a table that
\* lists every name under at most one category: it returns "Unknown"
\* exactly when the error type is empty or None, the category of a listed
\* name, and "Other" for every other name; so every key of the explanation
\* table that is not empty gets a category other than "Unknown".
C9_ExactLookup ==
    /\ \A n \in CategorizedNames : Cardinality(CategoriesOf(n)) = 1
    /\ op = "categorize_error"
       => /\ out = Lit("Unknown") <=> ~Truthy(text)
          /\ \A n \in CategorizedNames :
                 IsStr(text) /\ text.v = Chars[n]
                 => out = Lit(Categories[Greatest(CategoriesOf(n))][1])
          /\ Truthy(text) /\ (\A n \in CategorizedNames : text.v # Chars[n])
             => out = Lit("Other")
          /\ Truthy(text) /\ (\E k \in MappedTypes : text.v = Chars[k])
             => out # Lit("Unknown")

\* a name that differs from a listed name in case only is not listed
C9_CaseSensitive ==
    /\ op = "categorize_error"
    /\ text = PyStr(Chars["valueerror"])
    /\ out = Lit("Other")

\* C10: get_exception_mapping is an exact-match lookup with a fallback: for
\* a key of the explanation table it returns the record of that key, and for
\* every other str the record of the '__unknown__' entry.
C10_LookupWithFallback ==
    op = "get_exception_mapping"
    => IF \E k \in MappedTypes : text.v = Chars[k]
       THEN \A k \in MappedTypes :
                text.v = Chars[k] => out = PyDict(EXCEPTION_MAPPINGS[k])
       ELSE out = PyDict(EXCEPTION_MAPPINGS["__unknown__"])

\* a name that is no key gets the fallback record
C10_UnmappedFallsBack ==
    /\ op = "get_exception_mapping"
    /\ text = PyStr(Chars["TotallyMadeUpError"])
    /\ out = PyDict(EXCEPTION_MAPPINGS["__unknown__"])

\* C11: decode_traceback given the empty str, None or a value that is no str
\* returns the fixed invalid-input result: error_type "InvalidInput", success
\* false, tags ["invalid_input"], no line_number, file_name or function_name,
\* an empty raw_traceback; only the branding field follows the branding flag.
C11_FixedInvalidInput ==
    op = "decode_traceback" /\ (~IsStr(text) \/ text.v = <<>>)
    => /\ out.t = "dict"
       /\ out.v.error_type = PyStr(Chars["InvalidInput"])
       /\ out.v.success = PyBool(FALSE)
       /\ out.v.tags = PyList(<<"invalid_input">>)
       /\ out.v.line_number = None
       /\ out.v.file_name = None
       /\ out.v.function_name = None
       /\ out.v.raw_traceback = PyStr(<<>>)
       /\ out.v.branding = IF branding_arg THEN Branding ELSE None
       /\ out \in {InvalidInputResult(TRUE), InvalidInputResult(FALSE)}

\* the empty str, decoded without branding
C11_EmptyStrInvalid ==
    /\ op = "decode_traceback"
    /\ text = PyStr(<<>>)
    /\ ~branding_arg
    /\ out.v.error_type = PyStr(Chars["InvalidInput"])
    /\ out.v.branding = None

\* C12: for a non-empty str in which extract_error_type finds no type,
\* decode_traceback returns success false, error_type "UnknownError", the
\* explanation, fix, tags and emoji of the "__unknown__" record, and the
\* category that categorize_error gives for the error_type of the result.
C12_UnknownErrorFallback ==
    /\ op = "decode_traceback"
    /\ IsStr(text)
    /\ text.v # <<>>
    /\ extract_error_type(sanitize_traceback(text)) = None
    => /\ out.t = "dict"
       /\ out.v.success = PyBool(FALSE)
       /\ out.v.error_type = PyStr(Chars["UnknownError"])
       /\ out.v.simple_explanation = EXCEPTION_MAPPINGS["__unknown__"].simple_explanation
       /\ out.v.fix_suggestion = EXCEPTION_MAPPINGS["__unknown__"].fix_suggestion
       /\ out.v.tags = EXCEPTION_MAPPINGS["__unknown__"].tags
       /\ out.v.emoji = EXCEPTION_MAPPINGS["__unknown__"].emoji
       /\ out.v.category = categorize_error(out.v.error_type)

\* whether the code of call c has a line that binds result
BindsResult(c) == \E i \in 1..Len(code[c].v) : code[c].v[i] = AssignLine

\* C13: when the code ran to its end safe_run returns success true, the
\* text the code printed as output, and as result the value the code bound
\* to result, None when the code did not bind it; with every namespace the
\* caller passes, one used by an earlier call included.
C13_CleanCompletion ==
    \A c \in Calls :
        pc[c] = "done" /\ IsStr(code[c]) /\ code[c].v # <<>> /\ fault[c] = None
        => /\ ret[c].t = "dict"
           /\ ret[c].v.success = PyBool(TRUE)
           /\ ret[c].v.output = PyStr(printed[c])
           /\ ret[c].v.result = IF BindsResult(c) THEN AssignedValue ELSE None

\* C14: when safe_run catches what the code raised, it returns what
\* decode_traceback gives for the rendered traceback, with the text printed
\* before the exception as output; success is false and error_type names
\* the type of the exception raised.
C14_CaughtFaultDecoded ==
    \A c \in Calls :
        pc[c] = "done" /\ fault[c] # None /\ IsException(fault[c].type)
        => /\ ret[c].t = "dict"
           /\ \E carets \in BOOLEAN :
                  /\ decode_traceback(PyStr(format_exception(fault[c], carets)), branding_arg).t = "dict"
                  /\ ret[c].v = [output |-> PyStr(printed[c])]
                                  @@ decode_traceback(PyStr(format_exception(fault[c], carets)), branding_arg).v
           /\ ret[c].v.success = PyBool(FALSE)
           /\ ret[c].v.error_type = PyStr(Chars[fault[c].type])

\* C15: decode_exception given a value that is no exception returns the
\* fixed invalid-input result (error_type "InvalidInput", success false,
\* tags ["invalid_input"]); given an exception it returns exactly what
\* decode_traceback returns for the rendered exception and the same
\* add_branding.
C15_DecodeExceptionDelegates ==
    op = "decode_exception"
    => IF IsBaseException(text)
       THEN out = decode_traceback(format_exception_from_object(text), branding_arg)
       ELSE /\ out.t = "dict"
            /\ out.v.error_type = PyStr(Chars["InvalidInput"])
            /\ out.v.success = PyBool(FALSE)
            /\ out.v.tags = PyList(<<"invalid_input">>)

\* an exception with a traceback decoded without branding: the result names
\* its type and carries no branding
C15_CaughtExceptionDecoded ==
    /\ op = "decode_exception"
    /\ IsBaseException(text)
    /\ text.tb # <<>>
    /\ ~branding_arg
    /\ out.t = "dict"
    /\ out.v.error_type = PyStr(Chars[text.type])
    /\ out.v.branding = None

\* whether the code in the file runs to its end without raising
RunsClean(contents) ==
    \A i \in 1..Len(contents.v) : contents.v[i].k \in {"print", "assign"}

\* C16: pyexplain-run returns 0 when the file given ran, and 1 when an
\* error was decoded or the file could not be used (nothing at the path, not
\* a file, not readable); a file whose code runs without raising, an empty
\* file included, gives 0.
C16_ExitCodes ==
    cli_pc = "exited" /\ ~args.version /\ args.given
    => exit_code = IF path.k = "file" /\ RunsClean(path.contents)
                   THEN PyInt(0) ELSE PyInt(1)

\* C17: when calls of safe_run overlap, the output of each call is the text
\* its own code printed, and holds nothing another call's code printed.
C17_OwnOutput ==
    \A c \in Calls :
        pc[c] = "done" /\ ret[c].t = "dict"
        => ret[c].v.output = PyStr(printed[c])

\* C18: calls of safe_run share no namespace unless the caller passes one:
\* a call executes in a dict of its own or in the dict the caller passed,
\* a dict of its own holds only what the code of that call bound, and the
\* result of a call given no namespace is never the binding of an earlier
\* call.
C18_NamespacesNotShared ==
    \A c \in Calls :
        /\ globals_dict[c] \in {c, CallerNamespace}
        /\ globals_dict[c] = c /\ IsStr(code[c])
           => /\ namespace[c] # Unbound => BindsResult(c)
              /\ pc[c] = "done" /\ fault[c] = None /\ code[c].v # <<>>
                 => ret[c].v.result = IF BindsResult(c) THEN AssignedValue ELSE None

\* a call bound result in its own dict and returned it; another call, also
\* given no namespace, ran code that binds nothing and returned None
C18_LaterCallSeesNothing ==
    \E c, d \in Calls :
        /\ c # d
        /\ pc[c] = "done" /\ globals_dict[c] = c /\ IsStr(code[c]) /\ BindsResult(c)
        /\ ret[c].t = "dict" /\ ret[c].v.success = PyBool(TRUE)
        /\ ret[c].v.result = AssignedValue
        /\ pc[d] = "done" /\ globals_dict[d] = d /\ IsStr(code[d]) /\ code[d].v # <<>>
        /\ ~BindsResult(d) /\ fault[d] = None
        /\ ret[d].v.result = None

\* C19: a result is not changed by what callers do to other results, and
\* the table is not changed by what callers do to results: whatever a
\* caller appends to the tags of a result it holds, every record of the
\* table keeps its tags, and every decode_traceback call returns what it
\* returns when no result was ever touched.
C19_NoSharedState ==
    /\ \A k \in MappedTypes : mapping_tags[k] = EXCEPTION_MAPPINGS[k].tags.v
    /\ \A i \in 1..Len(held) :
           held[i].returned = decode_traceback(held[i].text, held[i].branding)

\* the fourteen category labels
CategoryLabels ==
    {Lit("Syntax Errors"), Lit("Name Errors"), Lit("Type Errors"),
     Lit("Value Errors"), Lit("Import Errors"), Lit("File Errors"),
     Lit("Arithmetic Errors"), Lit("Index Errors"), Lit("Attribute Errors"),
     Lit("Runtime Errors"), Lit("System Errors"), Lit("Assertion Errors"),
     Lit("Other"), Lit("Unknown")}

\* C20: the category of every result that decode_traceback, decode_exception
\* or the except clause of safe_run returns is one of the fourteen category
\* labels, for every input, invalid input included.
C20_CategoryInClosedSet ==
    /\ op \in {"decode_traceback", "decode_exception"} /\ out.t = "dict"
       => out.v.category \in CategoryLabels
    /\ \A c \in Calls :
           pc[c] = "done" /\ fault[c] # None /\ ret[c].t = "dict"
           => ret[c].v.category \in CategoryLabels

\* the lines of s that name a frame: they hold the word File and an
\* occurrence of line <digits>
FrameHeaders(s) ==
    LET ls == Split(s, "\n")
    IN  {k \in 1..Len(ls) : Contains(ls[k], WordFile) /\ LineOccurrences(ls[k]) # {}}

\* the last line of s that holds more than white space, 0 when there is none
FinalLine(s) ==
    LET ls == Split(s, "\n")
        full == {k \in 1..Len(ls) : Trim(ls[k]) # <<>>}
    IN  IF full = {} THEN 0 ELSE Greatest(full)

\* the frames listed before the final line
FramesBeforeFinal(s) == {k \in FrameHeaders(s) : k < FinalLine(s)}

\* the line number the frame header on line k of s gives
FrameLineNumber(s, k) ==
    LET l == Split(s, "\n")[k]
    IN  PyInt(ToInt(LineDigits(l, Greatest(LineOccurrences(l)))))

\* C21: the line_number of a result is the line of the last frame listed
\* before the final error line; a phrase line <N> in the message of the
\* final line, or in a source line quoted under a frame, does not change it.
C21_DeepestFrameLine ==
    /\ op = "extract_line_number" /\ IsStr(text) /\ FramesBeforeFinal(text.v) # {}
       => out = FrameLineNumber(text.v, Greatest(FramesBeforeFinal(text.v)))
    /\ op = "decode_traceback" /\ IsStr(text) /\ out.t = "dict"
       /\ sanitize_traceback(text) = text /\ FramesBeforeFinal(text.v) # {}
       => out.v.line_number = FrameLineNumber(text.v, Greatest(FramesBeforeFinal(text.v)))

\* C22: whenever extract_line_number returns a value, the value is an int
\* greater than 0, for every text.
C22_PositiveLine ==
    op = "extract_line_number" /\ out # None => out.t = "int" /\ out.v > 0

\* C23: a result of decode_traceback has the field syntax_details exactly
\* when its error_type is SyntaxError, IndentationError or TabError, and
\* that is exactly when its category is "Syntax Errors".
C23_SyntaxDetailsIffSyntaxClass ==
    op = "decode_traceback" /\ out.t = "dict"
    => /\ "syntax_details" \in DOMAIN out.v
          <=> IsOneOf(out.v.error_type.v, {"SyntaxError", "IndentationError", "TabError"})
       /\ "syntax_details" \in DOMAIN out.v
          <=> out.v.category = Lit("Syntax Errors")

\* an IndentationError decoded: the result has the details
C23_IndentationErrorHasDetails ==
    /\ op = "decode_traceback"
    /\ text = PyStr(Chars["IndentationError"])
    /\ out.t = "dict"
    /\ "syntax_details" \in DOMAIN out.v
    /\ out.v.category = Lit("Syntax Errors")

\* the lines of s after the first that hold a caret
CaretLines(s) ==
    LET ls == Split(s, "\n")
    IN  {k \in 2..Len(ls) : \E j \in 1..Len(ls[k]) : ls[k][j] = "^"}

\* C24: parse_syntax_error_details uses the first line that holds a caret
\* and is not the first line of the text: has_caret is true, caret_position
\* is the offset of the first caret of that line, problematic_line is the
\* line before it, trimmed; when there is no such line has_caret is false
\* and the other two fields are None.
C24_FirstCaretLine ==
    op = "parse_syntax_error_details" /\ IsStr(text)
    => LET ls == Split(text.v, "\n")
           k == Least(CaretLines(text.v))
       IN  /\ out.t = "dict"
           /\ IF CaretLines(text.v) = {}
              THEN /\ out.v.has_caret = PyBool(FALSE)
                   /\ out.v.caret_position = None
                   /\ out.v.problematic_line = None
              ELSE /\ out.v.has_caret = PyBool(TRUE)
                   /\ out.v.caret_position = PyInt(Least({j \in 1..Len(ls[k]) : ls[k][j] = "^"}) - 1)
                   /\ out.v.problematic_line = PyStr(Trim(ls[k - 1]))

\* a caret on the first line is passed over for a caret on a later line,
\* which does not stand at the start of its line
C24_FirstLineCaretSkipped ==
    /\ op = "parse_syntax_error_details"
    /\ IsStr(text)
    /\ \E j \in 1..Len(Split(text.v, "\n")[1]) : Split(text.v, "\n")[1][j] = "^"
    /\ CaretLines(text.v) # {}
    /\ out.v.has_caret = PyBool(TRUE)
    /\ out.v.caret_position = PyInt(1)

\* C25: once every call of safe_run has returned, whether its code ran to
\* the end or raised, sys.stdout is the stream that was installed before
\* the first call; for calls made one after another and for calls that
\* overlap.
C25_StdoutRestored ==
    (\A c \in Calls : pc[c] \in {"idle", "done"}) => sys_stdout = Console

\* C26: decode returns what decode_exception returns when it is given an
\* exception, and what decode_traceback returns when it is given a str, the
\* invalid-input result for the empty str; given any other value it raises
\* TypeError and returns no result.
C26_DecodeDispatch ==
    op = "decode"
    => IF IsBaseException(text) THEN out = decode_exception(text, branding_arg)
       ELSE IF IsStr(text)
            THEN /\ out = decode_traceback(text, branding_arg)
                 /\ text.v = <<>> => /\ out.t = "dict"
                                     /\ out.v.error_type = PyStr(Chars["InvalidInput"])
                                     /\ out.v.success = PyBool(FALSE)
            ELSE out = Raised("TypeError")

\* decode(None) raised TypeError
C26_NoneRaisesTypeError ==
    /\ op = "decode"
    /\ text = None
    /\ out = Raised("TypeError")

===========================================================================
